---- MODULE Spec2Model ----
(***************************************************************************)
(* Persistence layer of trusty_rusty_todo_list: the Storage trait with its *)
(* derived operations (storage/mod.rs), the flat-file backends             *)
(* (storage/json.rs and the JsonStorage of storage/mod.rs), the relational *)
(* backend (storage/sqlite.rs) and CategoryManager (category_manager.rs).  *)
(***************************************************************************)
EXTENDS Integers, Sequences, FiniteSets, TLC

VARIABLES
    backend,    \* which Storage implementation the handle was built with
    file,       \* the flat file at JsonStorage.path
    db,         \* the SQLite database behind SqliteStorage.conn
    now,        \* the wall clock read by Utc::now()
    last,       \* the most recent call on the handle and what it returned
    input,      \* the snapshot handed to save in the round-trip runs
    constructed,\* SqliteStorage::new has returned the handle
    mutex,      \* owner of SqliteStorage.conn's Mutex (0 = unlocked)
    pc,         \* per thread: position inside load / save / initialize_schema
    job,        \* per thread: the snapshot being saved, the rows read so far
    tx,         \* the open rusqlite Transaction on the connection
    current_category, \* CategoryManager.current_category
    old_storage_type  \* ConfigManager.old_storage_type

vars == <<backend, file, db, now, last, input, constructed, mutex, pc, job, tx,
          current_category, old_storage_type>>

(***************************************************************************)
(* Bounds of the model.                                                    *)
(***************************************************************************)
MaxTasks == 1       \* most tasks the store is grown to
MaxCats == 2        \* most categories the store is grown to
NumThreads == 2     \* threads sharing one SqliteStorage
MaxFault == 6       \* steps of a migration batch at which a failure is tried
MaxTime == 2        \* the clock runs from 0 to this, in days

(***************************************************************************)
(* Option<T>, Result<T, E>                                                 *)
(***************************************************************************)
None == <<>>
Some(v) == <<v>>

NoValue == <<>>
Ok(v) == [ok |-> TRUE, err |-> "none", val |-> v]
Err(e) == [ok |-> FALSE, err |-> e, val |-> NoValue]

(***************************************************************************)
(* str::to_lowercase on the strings the model uses.                        *)
(***************************************************************************)
to_lowercase(s) ==
    CASE s = "Work" -> "work"
      [] s = "WORK" -> "work"
      [] s = "Home" -> "home"
      [] s = "Y" -> "y"
      [] s = "High" -> "high"
      [] s = "HIGH" -> "high"
      [] s = "Medium" -> "medium"
      [] s = "Low" -> "low"
      [] s = "INVALID_PRIORITY" -> "invalid_priority"
      [] OTHER -> s

(***************************************************************************)
(* models/mod.rs: Priority, Config, Task, Category, StorageData            *)
(***************************************************************************)
Priority == {"High", "Medium", "Low"}

ConfigDefault ==
    [deleted_task_lifespan |-> None, storage_type |-> None,
     storage_path |-> None, default_category |-> None,
     default_priority |-> Some("medium")]

StorageDataNew(t) ==
    [version |-> 1, tasks |-> <<>>, categories |-> <<>>,
     config |-> ConfigDefault, current_category |-> None, last_sync |-> t]

\* StorageData::validate: the first violated invariant, as the error it returns
DanglingTasks(data) ==
    {i \in 1..Len(data.tasks) :
        /\ data.tasks[i].category_id # 0
        /\ ~\E j \in 1..Len(data.categories) :
              data.categories[j].id = data.tasks[i].category_id}

DuplicateNames(data) ==
    {j \in 1..Len(data.categories) :
        \E i \in 1..(j - 1) :
            to_lowercase(data.categories[i].name)
                = to_lowercase(data.categories[j].name)}

validate(data) ==
    IF DanglingTasks(data) # {} THEN Err("InvalidTaskCategory")
    ELSE IF DuplicateNames(data) # {} THEN Err("DuplicateCategory")
    ELSE Ok(NoValue)

(***************************************************************************)
(* Text forms: chrono's RFC3339 strings, serde's enum names, the priority  *)
(* tokens of the relational backend.                                       *)
(***************************************************************************)
to_rfc3339(t) == [rfc3339 |-> TRUE, instant |-> t]
NotADate == [rfc3339 |-> FALSE, instant |-> 0]

parse_from_rfc3339(s) ==
    IF s.rfc3339 THEN Ok(s.instant) ELSE Err("ParseError")

priority_to_string(p) ==
    CASE p = "High" -> "high"
      [] p = "Medium" -> "medium"
      [] p = "Low" -> "low"

\* the match arm for an unknown token falls back to Priority::default()
string_to_priority_defaulting(s) ==
    LET l == to_lowercase(s) IN
    CASE l = "high" -> Ok("High")
      [] l = "medium" -> Ok("Medium")
      [] l = "low" -> Ok("Low")
      [] OTHER -> Ok("Medium")

string_to_priority(s) ==
    LET l == to_lowercase(s) IN
    CASE l = "high" -> Ok("High")
      [] l = "medium" -> Ok("Medium")
      [] l = "low" -> Ok("Low")
      [] OTHER -> Err("Storage")

(***************************************************************************)
(* Helpers over sequences and sets of rows.                                *)
(***************************************************************************)
MapOption(o, F(_)) == IF o = None THEN None ELSE Some(F(o[1]))

AllOk(rs) == \A i \in 1..Len(rs) : rs[i].ok
Vals(rs) == [i \in 1..Len(rs) |-> rs[i].val]

MinId(S) == CHOOSE r \in S : \A q \in S : r.id <= q.id

\* a table scan returns the rows in rowid (INTEGER PRIMARY KEY) order
RECURSIVE SortById(_)
SortById(S) ==
    IF S = {} THEN <<>>
    ELSE LET r == MinId(S) IN <<r>> \o SortById(S \ {r})

MaxOf(S) == IF S = {} THEN 0 ELSE CHOOSE m \in S : \A x \in S : x <= m

(***************************************************************************)
(* serde_json: StorageData <-> document (used by both flat-file backends)  *)
(***************************************************************************)
TaskToJson(t) ==
    [id |-> t.id, title |-> t.title, description |-> t.description,
     category_id |-> t.category_id, completed |-> t.completed,
     priority |-> t.priority,
     due_date |-> MapOption(t.due_date, to_rfc3339),
     order |-> t.order,
     created_at |-> to_rfc3339(t.created_at),
     updated_at |-> to_rfc3339(t.updated_at)]

CategoryToJson(c) ==
    [id |-> c.id, name |-> c.name, description |-> c.description,
     order |-> c.order, created_at |-> to_rfc3339(c.created_at)]

to_string_pretty(data) ==
    [version |-> data.version,
     tasks |-> [i \in 1..Len(data.tasks) |-> TaskToJson(data.tasks[i])],
     categories |->
        [i \in 1..Len(data.categories) |-> CategoryToJson(data.categories[i])],
     config |-> data.config,
     current_category |-> data.current_category,
     last_sync |-> to_rfc3339(data.last_sync)]

TaskFromJson(j) ==
    IF /\ j.priority \in Priority
       /\ j.created_at.rfc3339
       /\ j.updated_at.rfc3339
       /\ (j.due_date # None => j.due_date[1].rfc3339)
    THEN Ok([id |-> j.id, title |-> j.title, description |-> j.description,
             category_id |-> j.category_id, completed |-> j.completed,
             priority |-> j.priority,
             due_date |-> IF j.due_date = None THEN None
                          ELSE Some(j.due_date[1].instant),
             order |-> j.order,
             created_at |-> j.created_at.instant,
             updated_at |-> j.updated_at.instant])
    ELSE Err("Serialization")

CategoryFromJson(j) ==
    IF j.created_at.rfc3339
    THEN Ok([id |-> j.id, name |-> j.name, description |-> j.description,
             order |-> j.order, created_at |-> j.created_at.instant])
    ELSE Err("Serialization")

from_str(doc) ==
    LET ts == [i \in 1..Len(doc.tasks) |-> TaskFromJson(doc.tasks[i])]
        cs == [i \in 1..Len(doc.categories) |->
                  CategoryFromJson(doc.categories[i])]
    IN IF AllOk(ts) /\ AllOk(cs) /\ doc.last_sync.rfc3339
       THEN Ok([version |-> doc.version, tasks |-> Vals(ts),
                categories |-> Vals(cs), config |-> doc.config,
                current_category |-> doc.current_category,
                last_sync |-> doc.last_sync.instant])
       ELSE Err("Serialization")

(***************************************************************************)
(* The flat file: absent, present with only whitespace, or a document.     *)
(***************************************************************************)
NoDoc == <<>>
FileMissing == [kind |-> "missing", doc |-> NoDoc]
FileBlank == [kind |-> "blank", doc |-> NoDoc]
FileJson(doc) == [kind |-> "json", doc |-> doc]

\* what a save hands back: the result and the store it leaves behind
Outcome(r, f, d) == [ok |-> r.ok, err |-> r.err, val |-> r.val, file |-> f, db |-> d]

\* storage/json.rs JsonStorage::save (storage/mod.rs has the same body)
JsonSave(f, d, data) ==
    LET written == FileJson(to_string_pretty(data))
        read_data == from_str(written.doc)
    IN IF ~read_data.ok THEN Outcome(Err("Serialization"), written, d)
       ELSE IF \/ Len(read_data.val.tasks) # Len(data.tasks)
               \/ Len(read_data.val.categories) # Len(data.categories)
       THEN Outcome(Err("Storage"), written, d)
       ELSE Outcome(Ok(NoValue), written, d)

\* storage/json.rs JsonStorage::load
JsonLoad(f, t) ==
    IF f.kind = "missing" THEN Ok(StorageDataNew(t))
    ELSE IF f.kind = "blank" THEN Ok(StorageDataNew(t))
    ELSE from_str(f.doc)

\* storage/mod.rs JsonStorage::load: no test for an empty file
JsonInlineLoad(f, t) ==
    IF f.kind = "missing" THEN Ok(StorageDataNew(t))
    ELSE IF f.kind = "blank" THEN Err("Serialization")
    ELSE from_str(f.doc)

(***************************************************************************)
(* storage/sqlite.rs: the database, its rows and the statements of a save. *)
(***************************************************************************)
SCHEMA_VERSION == 1

NoTables == [categories |-> {}, tasks |-> {}]

\* the database file before SqliteStorage::new has run on it
DbUninitialized ==
    [has_schema |-> FALSE, foreign_keys |-> FALSE, schema_version |-> <<>>,
     objects |-> {},
     tables |-> NoTables]

\* the database after initialize_schema on a new file
DbFresh ==
    [has_schema |-> TRUE, foreign_keys |-> TRUE,
     schema_version |-> <<SCHEMA_VERSION>>, objects |-> {}, tables |-> NoTables]

CategoryRow(c) ==
    [id |-> c.id, name |-> c.name, created_at |-> to_rfc3339(c.created_at)]

TaskRow(t) ==
    [id |-> t.id, title |-> t.title, category_id |-> t.category_id,
     completed |-> t.completed, priority |-> priority_to_string(t.priority),
     created_at |-> to_rfc3339(t.created_at),
     updated_at |-> to_rfc3339(t.updated_at)]

\* the statements save executes inside its transaction, in order
SaveStatements(data) ==
    << [kind |-> "delete_tasks", row |-> NoValue],
       [kind |-> "delete_categories", row |-> NoValue] >>
    \o [i \in 1..Len(data.categories) |->
          [kind |-> "insert_category", row |-> CategoryRow(data.categories[i])]]
    \o [i \in 1..Len(data.tasks) |->
          [kind |-> "insert_task", row |-> TaskRow(data.tasks[i])]]

\* the constraint is declared but never enforced
ForeignKeyUnchecked(t, fk, row) == TRUE

\* FOREIGN KEY (category_id) REFERENCES categories(id), when the pragma is on
ForeignKeyHolds(t, fk, row) ==
    fk => \E c \in t.categories : c.id = row.category_id

\* one statement against the tables: the tables after it, or the error
Execute(t, fk, stmt) ==
    CASE stmt.kind = "delete_tasks" -> Ok([t EXCEPT !.tasks = {}])
      [] stmt.kind = "delete_categories" ->
            IF fk /\ t.tasks # {} /\ (\E r \in t.tasks : \E c \in t.categories :
                                          c.id = r.category_id)
            THEN Err("Sqlite")
            ELSE Ok([t EXCEPT !.categories = {}])
      [] stmt.kind = "insert_category" ->
            IF \E c \in t.categories : c.id = stmt.row.id
            THEN Err("Storage")
            ELSE Ok([t EXCEPT !.categories = @ \cup {stmt.row}])
      [] stmt.kind = "insert_task" ->
            IF \/ \E r \in t.tasks : r.id = stmt.row.id
               \/ ~ForeignKeyHolds(t, fk, stmt.row)
            THEN Err("Storage")
            ELSE Ok([t EXCEPT !.tasks = @ \cup {stmt.row}])

\* the statements from position i on; the first failure ends the run and
\* hands back the tables as the transaction left them
RECURSIVE ExecuteFrom(_, _, _, _)
ExecuteFrom(t, fk, stmts, i) ==
    IF i > Len(stmts) THEN Ok(t)
    ELSE LET r == Execute(t, fk, stmts[i]) IN
         IF r.ok THEN ExecuteFrom(r.val, fk, stmts, i + 1)
         ELSE [ok |-> FALSE, err |-> r.err, val |-> t]

\* the rows written before the failure stay
RollbackKeepsWrites(committed, working) == working

\* dropping a Transaction that was not committed rolls it back
Rollback(committed, working) == committed
Commit(committed, working) == working

\* SqliteStorage::save as one call on the connection
SqliteSave(f, d, data) ==
    LET r == ExecuteFrom(d.tables, d.foreign_keys, SaveStatements(data), 1) IN
    IF r.ok
    THEN Outcome(Ok(NoValue), f, [d EXCEPT !.tables = Commit(d.tables, r.val)])
    ELSE Outcome(Err(r.err), f, [d EXCEPT !.tables = Rollback(d.tables, r.val)])

\* the row closures of load
CategoryFromRow(row) ==
    LET created == parse_from_rfc3339(row.created_at) IN
    IF created.ok
    THEN Ok([id |-> row.id, name |-> row.name, description |-> None,
             order |-> 0, created_at |-> created.val])
    ELSE Err("Storage")

TaskFromRow(row) ==
    LET p == string_to_priority(row.priority)
        created == parse_from_rfc3339(row.created_at)
        updated == parse_from_rfc3339(row.updated_at)
    IN IF p.ok /\ created.ok /\ updated.ok
       THEN Ok([id |-> row.id, title |-> row.title, description |-> None,
                category_id |-> row.category_id, completed |-> row.completed,
                priority |-> p.val, due_date |-> None, order |-> 0,
                created_at |-> created.val, updated_at |-> updated.val])
       ELSE Err("Storage")

ReadCategories(t) ==
    LET rows == SortById(t.categories)
        cs == [i \in 1..Len(rows) |-> CategoryFromRow(rows[i])]
    IN IF AllOk(cs) THEN Ok(Vals(cs)) ELSE Err("Storage")

ReadTasks(t) ==
    LET rows == SortById(t.tasks)
        ts == [i \in 1..Len(rows) |-> TaskFromRow(rows[i])]
    IN IF AllOk(ts) THEN Ok(Vals(ts)) ELSE Err("Storage")

\* SqliteStorage::load as one call on the connection
SqliteLoad(d, t) ==
    LET cs == ReadCategories(d.tables)
        ts == ReadTasks(d.tables)
    IN IF ~cs.ok THEN Err("Storage")
       ELSE IF ~ts.ok THEN Err("Storage")
       ELSE Ok([StorageDataNew(t) EXCEPT !.tasks = ts.val,
                                         !.categories = cs.val])

(***************************************************************************)
(* storage/mod.rs: the Storage trait.  load and save dispatch on the       *)
(* implementation behind the handle; the provided methods are built on     *)
(* them.                                                                   *)
(***************************************************************************)
Backends == {"json", "json_inline", "sqlite"}

load(b, f, d, t) ==
    CASE b = "json" -> JsonLoad(f, t)
      [] b = "json_inline" -> JsonInlineLoad(f, t)
      [] b = "sqlite" -> SqliteLoad(d, t)

save(b, f, d, data) ==
    IF b = "sqlite" THEN SqliteSave(f, d, data) ELSE JsonSave(f, d, data)

\* a call that returns before it saves leaves the store as it is
Unchanged(r, f, d) == Outcome(r, f, d)

\* StorageError::Storage(format!(".. {} ..", id)): the message carries the id
StorageErrorNaming(id) == [ok |-> FALSE, err |-> "Storage", val |-> <<"id", id>>]

IndexOfId(s, id) ==
    IF \E i \in 1..Len(s) : s[i].id = id
    THEN CHOOSE i \in 1..Len(s) : s[i].id = id /\ \A j \in 1..(i - 1) : s[j].id # id
    ELSE 0

Retain(s, Keep(_)) == SelectSeq(s, Keep)

add_task(b, f, d, t, task) ==
    LET l == load(b, f, d, t) IN
    IF ~l.ok THEN Unchanged(l, f, d)
    ELSE save(b, f, d, [l.val EXCEPT !.tasks = Append(@, task)])

update_task(b, f, d, t, task) ==
    LET l == load(b, f, d, t) IN
    IF ~l.ok THEN Unchanged(l, f, d)
    ELSE LET i == IndexOfId(l.val.tasks, task.id) IN
         IF i # 0 THEN save(b, f, d, [l.val EXCEPT !.tasks[i] = task])
         ELSE Unchanged(StorageErrorNaming(task.id), f, d)

add_category(b, f, d, t, category) ==
    LET l == load(b, f, d, t) IN
    IF ~l.ok THEN Unchanged(l, f, d)
    ELSE save(b, f, d, [l.val EXCEPT !.categories = Append(@, category)])

\* the category goes even while tasks refer to it
delete_category_unchecked(b, f, d, t, category_id) ==
    LET l == load(b, f, d, t) IN
    IF ~l.ok THEN Unchanged(l, f, d)
    ELSE LET Keep(c) == c.id # category_id IN
         save(b, f, d, [l.val EXCEPT !.categories = Retain(@, Keep)])

delete_category(b, f, d, t, category_id) ==
    LET l == load(b, f, d, t) IN
    IF ~l.ok THEN Unchanged(l, f, d)
    ELSE IF \E i \in 1..Len(l.val.tasks) : l.val.tasks[i].category_id = category_id
    THEN Unchanged(StorageErrorNaming(category_id), f, d)
    ELSE LET Keep(c) == c.id # category_id IN
         save(b, f, d, [l.val EXCEPT !.categories = Retain(@, Keep)])

update_category(b, f, d, t, category) ==
    LET l == load(b, f, d, t) IN
    IF ~l.ok THEN Unchanged(l, f, d)
    ELSE LET i == IndexOfId(l.val.categories, category.id) IN
         IF i # 0 THEN save(b, f, d, [l.val EXCEPT !.categories[i] = category])
         ELSE Unchanged(StorageErrorNaming(category.id), f, d)

get_next_category_id(b, f, d, t) ==
    LET l == load(b, f, d, t) IN
    IF ~l.ok THEN l
    ELSE Ok(MaxOf({l.val.categories[i].id : i \in 1..Len(l.val.categories)}) + 1)

\* the move without the stamp
move_task_to_category_unstamped(b, f, d, t, task_id, new_category_id) ==
    LET l == load(b, f, d, t) IN
    IF ~l.ok THEN Unchanged(l, f, d)
    ELSE LET i == IndexOfId(l.val.tasks, task_id) IN
         IF i # 0
         THEN save(b, f, d, [l.val EXCEPT !.tasks[i].category_id = new_category_id])
         ELSE Unchanged(StorageErrorNaming(task_id), f, d)

move_task_to_category(b, f, d, t, task_id, new_category_id) ==
    LET l == load(b, f, d, t) IN
    IF ~l.ok THEN Unchanged(l, f, d)
    ELSE LET i == IndexOfId(l.val.tasks, task_id) IN
         IF i # 0
         THEN save(b, f, d, [l.val EXCEPT !.tasks[i].category_id = new_category_id,
                                          !.tasks[i].updated_at = t])
         ELSE Unchanged(StorageErrorNaming(task_id), f, d)

get_tasks_by_category(b, f, d, t, category_id) ==
    LET l == load(b, f, d, t) IN
    IF ~l.ok THEN l
    ELSE Ok(SelectSeq(l.val.tasks, LAMBDA x : x.category_id = category_id))

get_tasks_by_priority(b, f, d, t, priority) ==
    LET l == load(b, f, d, t) IN
    IF ~l.ok THEN l
    ELSE Ok(SelectSeq(l.val.tasks, LAMBDA x : x.priority = priority))

get_completed_tasks(b, f, d, t) ==
    LET l == load(b, f, d, t) IN
    IF ~l.ok THEN l
    ELSE Ok(SelectSeq(l.val.tasks, LAMBDA x : x.completed))

get_incomplete_tasks(b, f, d, t) ==
    LET l == load(b, f, d, t) IN
    IF ~l.ok THEN l
    ELSE Ok(SelectSeq(l.val.tasks, LAMBDA x : ~x.completed))

get_tasks_by_priority_and_category(b, f, d, t, priority, category_id) ==
    LET l == load(b, f, d, t) IN
    IF ~l.ok THEN l
    ELSE Ok(SelectSeq(l.val.tasks, LAMBDA x : x.priority = priority
                                              /\ x.category_id = category_id))

get_tasks_by_completion_and_category(b, f, d, t, completed, category_id) ==
    LET l == load(b, f, d, t) IN
    IF ~l.ok THEN l
    ELSE Ok(SelectSeq(l.val.tasks, LAMBDA x : x.completed = completed
                                              /\ x.category_id = category_id))

get_tasks_by_completion_and_priority(b, f, d, t, completed, priority) ==
    LET l == load(b, f, d, t) IN
    IF ~l.ok THEN l
    ELSE Ok(SelectSeq(l.val.tasks, LAMBDA x : x.completed = completed
                                              /\ x.priority = priority))

get_tasks_by_completion_priority_and_category(b, f, d, t, completed, priority, category_id) ==
    LET l == load(b, f, d, t) IN
    IF ~l.ok THEN l
    ELSE Ok(SelectSeq(l.val.tasks, LAMBDA x : x.completed = completed
                                              /\ x.priority = priority
                                              /\ x.category_id = category_id))

get_deleted_tasks(b, f, d, t) == get_tasks_by_category(b, f, d, t, 0)

soft_delete_task(b, f, d, t, task_id) ==
    move_task_to_category(b, f, d, t, task_id, 0)

delete_task(b, f, d, t, task_id) ==
    LET l == load(b, f, d, t) IN
    IF ~l.ok THEN Unchanged(l, f, d)
    ELSE save(b, f, d, [l.val EXCEPT !.tasks =
                            SelectSeq(@, LAMBDA x : x.id # task_id)])

get_next_task_id(b, f, d, t) ==
    LET l == load(b, f, d, t) IN
    IF ~l.ok THEN l
    ELSE Ok(MaxOf({l.val.tasks[i].id : i \in 1..Len(l.val.tasks)}) + 1)

\* tasks of every category are dropped once they are old
purge_old_tasks(b, f, d, t, days_threshold) ==
    LET l == load(b, f, d, t)
        threshold == t - days_threshold
    IN IF ~l.ok THEN Unchanged(l, f, d)
       ELSE save(b, f, d, [l.val EXCEPT !.tasks =
                    SelectSeq(@, LAMBDA x : x.updated_at > threshold)])

\* chrono::Duration::days is counted in the unit of the clock
purge_deleted_tasks(b, f, d, t, days_threshold) ==
    LET l == load(b, f, d, t)
        threshold == t - days_threshold
    IN IF ~l.ok THEN Unchanged(l, f, d)
       ELSE save(b, f, d, [l.val EXCEPT !.tasks =
                    SelectSeq(@, LAMBDA x : IF x.category_id = 0
                                            THEN x.updated_at > threshold
                                            ELSE TRUE)])

(***************************************************************************)
(* category_manager.rs: CategoryManager::add_category                      *)
(***************************************************************************)
trim_is_empty(s) == s \in {"", " "}

\* Task::new: the id is 0 until somebody sets it
TaskNew(title, category_id, description, priority, t) ==
    IF trim_is_empty(title) THEN Err("EmptyTitle")
    ELSE Ok([id |-> 0, title |-> title, description |-> description,
             category_id |-> category_id, completed |-> FALSE,
             priority |-> priority, due_date |-> None, order |-> 0,
             created_at |-> t, updated_at |-> t])

\* Category::new
CategoryNew(name, description, t) ==
    IF trim_is_empty(name) THEN Err("EmptyName")
    ELSE Ok([id |-> 0, name |-> name, description |-> description,
             order |-> 0, created_at |-> t])

\* the duplicate check compares the names as written
HasNameExact(categories, name) ==
    \E i \in 1..Len(categories) : categories[i].name = name

HasName(categories, name) ==
    \E i \in 1..Len(categories) :
        to_lowercase(categories[i].name) = to_lowercase(name)

DuplicateNameError == "DuplicateName"

manager_add_category(b, f, d, t, name, description) ==
    LET c == CategoryNew(name, description, t)
        l == load(b, f, d, t)
        next == get_next_category_id(b, f, d, t)
    IN IF ~c.ok THEN Unchanged(c, f, d)
       ELSE IF ~l.ok THEN Unchanged(l, f, d)
       ELSE IF HasName(l.val.categories, name)
       THEN Unchanged(Err(DuplicateNameError), f, d)
       ELSE IF ~next.ok THEN Unchanged(next, f, d)
       ELSE LET category == [c.val EXCEPT !.id = next.val, !.order = next.val]
                s == save(b, f, d, [l.val EXCEPT !.categories = Append(@, category)])
            IN IF s.ok THEN Outcome(Ok(category.id), s.file, s.db) ELSE s

get_all_categories(b, f, d, t) ==
    LET l == load(b, f, d, t) IN
    IF ~l.ok THEN l ELSE Ok(l.val.categories)

\* String's Ord (byte order) on the names the model uses
NamesInByteOrder == <<"Home", "Test", "Uncategorized", "Work", "work">>

NameRank(name) ==
    CHOOSE i \in 1..Len(NamesInByteOrder) : NamesInByteOrder[i] = name

\* a.order.cmp(&b.order).then(a.name.cmp(&b.name)) is Less
CategoryLess(a, b) ==
    \/ a.order < b.order
    \/ a.order = b.order /\ NameRank(a.name) < NameRank(b.name)

RECURSIVE InsertSorted(_, _)
InsertSorted(s, c) ==
    IF s = <<>> THEN <<c>>
    ELSE IF CategoryLess(c, Head(s)) THEN <<c>> \o s
    ELSE <<Head(s)>> \o InsertSorted(Tail(s), c)

\* Vec::sort_by with that comparison (a stable sort)
RECURSIVE sort_by(_)
sort_by(s) ==
    IF s = <<>> THEN <<>>
    ELSE InsertSorted(sort_by(SubSeq(s, 1, Len(s) - 1)), s[Len(s)])

list_categories(b, f, d, t) ==
    LET l == get_all_categories(b, f, d, t)
        uncategorized == [CategoryNew("Uncategorized", None, t).val
                              EXCEPT !.id = 0, !.order = 0]
    IN IF ~l.ok THEN l
       ELSE Ok(sort_by(Append(Retain(l.val, LAMBDA c : c.id # 0), uncategorized)))

\* the outcome of a call on the manager: the store and the manager's field
WithCurrent(o, current) ==
    [ok |-> o.ok, err |-> o.err, val |-> o.val, file |-> o.file, db |-> o.db,
     current |-> current]

\* CategoryManager::new: storage.load().ok().and_then(|data| data.current_category)
manager_new(b, f, d, t) ==
    LET l == load(b, f, d, t) IN
    IF l.ok THEN l.val.current_category ELSE None

use_category(b, f, d, t, current, category_id) ==
    LET l == load(b, f, d, t) IN
    IF ~l.ok THEN WithCurrent(Unchanged(l, f, d), current)
    ELSE IF IndexOfId(l.val.categories, category_id) # 0
    THEN WithCurrent(save(b, f, d, [l.val EXCEPT !.current_category = Some(category_id)]),
                     Some(category_id))
    ELSE WithCurrent(Unchanged(StorageErrorNaming(category_id), f, d), current)

clear_category_context(b, f, d, t) ==
    LET l == load(b, f, d, t) IN
    IF ~l.ok THEN WithCurrent(Unchanged(l, f, d), None)
    ELSE WithCurrent(save(b, f, d, [l.val EXCEPT !.current_category = None]), None)

get_current_category(current) ==
    Some(IF current = None THEN 0 ELSE current[1])

set_category_order(b, f, d, t, category_id, new_order) ==
    LET l == load(b, f, d, t) IN
    IF ~l.ok THEN Unchanged(l, f, d)
    ELSE LET i == IndexOfId(l.val.categories, category_id) IN
         IF i # 0 THEN save(b, f, d, [l.val EXCEPT !.categories[i].order = new_order])
         ELSE Unchanged(StorageErrorNaming(category_id), f, d)

\* for (order, id) in category_ids.iter().enumerate(): set_order(order)
RECURSIVE SetOrders(_, _, _)
SetOrders(categories, category_ids, k) ==
    IF k > Len(category_ids) THEN categories
    ELSE SetOrders([categories EXCEPT ![IndexOfId(categories, category_ids[k])].order = k - 1],
                   category_ids, k + 1)

reorder_categories(b, f, d, t, category_ids) ==
    LET l == load(b, f, d, t) IN
    IF ~l.ok THEN Unchanged(l, f, d)
    ELSE LET missing == {k \in 1..Len(category_ids) :
                            IndexOfId(l.val.categories, category_ids[k]) = 0}
         IN IF missing # {}
            THEN Unchanged(StorageErrorNaming(
                     category_ids[CHOOSE k \in missing : \A j \in missing : k <= j]), f, d)
            ELSE save(b, f, d, [l.val EXCEPT
                                   !.categories = SetOrders(@, category_ids, 1)])

\* the task as delete_category leaves it
Reassigned(task, category_id, to) ==
    IF task.category_id = category_id THEN [task EXCEPT !.category_id = to] ELSE task

manager_delete_category(b, f, d, t, current, category_id, new_category_id) ==
    LET l == load(b, f, d, t)
        to == IF new_category_id = None THEN 0 ELSE new_category_id[1]
        cleared == current = Some(category_id)
    IN IF ~l.ok THEN WithCurrent(Unchanged(l, f, d), current)
       ELSE IF IndexOfId(l.val.categories, category_id) = 0
       THEN WithCurrent(Unchanged(StorageErrorNaming(category_id), f, d), current)
       ELSE IF new_category_id # None /\ IndexOfId(l.val.categories, to) = 0
       THEN WithCurrent(Unchanged(StorageErrorNaming(to), f, d), current)
       ELSE WithCurrent(
                save(b, f, d,
                     [l.val EXCEPT
                         !.tasks = [i \in 1..Len(@) |-> Reassigned(@[i], category_id, to)],
                         !.categories = Retain(@, LAMBDA c : c.id # category_id),
                         !.current_category = IF cleared THEN None ELSE @]),
                IF cleared THEN None ELSE current)

manager_update_category(b, f, d, t, category_id, new_name) ==
    LET l == load(b, f, d, t) IN
    IF ~l.ok THEN Unchanged(l, f, d)
    ELSE IF HasName(l.val.categories, new_name)
    THEN Unchanged(Err("DuplicateCategory"), f, d)
    ELSE LET i == IndexOfId(l.val.categories, category_id) IN
         IF i = 0 THEN Unchanged(StorageErrorNaming(category_id), f, d)
         ELSE IF trim_is_empty(new_name) THEN Unchanged(Err("EmptyName"), f, d)
         ELSE save(b, f, d, [l.val EXCEPT !.categories[i].name = new_name])

(***************************************************************************)
(* What is persisted, whichever backend holds it.                          *)
(***************************************************************************)
PersistedTasks ==
    IF backend = "sqlite" THEN SortById(db.tables.tasks)
    ELSE IF file.kind = "json" THEN file.doc.tasks
    ELSE <<>>

PersistedCategories ==
    IF backend = "sqlite" THEN SortById(db.tables.categories)
    ELSE IF file.kind = "json" THEN file.doc.categories
    ELSE <<>>

Persisted == IF backend = "sqlite" THEN db.tables ELSE file

(***************************************************************************)
(* Values the callers pass in.                                             *)
(***************************************************************************)
MkTask(id, category_id) ==
    [id |-> id, title |-> "Test Task", description |-> None,
     category_id |-> category_id, completed |-> FALSE, priority |-> "Medium",
     due_date |-> None, order |-> 0, created_at |-> 0, updated_at |-> 0]

MkCategory(id, name) ==
    [id |-> id, name |-> name, description |-> None, order |-> 0,
     created_at |-> 0]

TaskInputs == {MkTask(1, 0), MkTask(1, 1), MkTask(2, 1), MkTask(1, 2)}
CategoryInputs == {MkCategory(1, "Work"), MkCategory(2, "work"),
                   MkCategory(2, "Home")}
NameInputs == {"Work", "work", "Home"}
TaskIds == {1, 2}
CategoryIds == {0, 1, 2}

MkData(tasks, categories) ==
    [StorageDataNew(0) EXCEPT !.tasks = tasks, !.categories = categories]

\* snapshots handed to save directly: empty, valid, with a soft-deleted task,
\* with a dangling reference, with two names equal ignoring case
SaveInputs ==
    {MkData(<<>>, <<>>),
     MkData(<<MkTask(1, 1)>>, <<MkCategory(1, "Work")>>),
     MkData(<<MkTask(1, 0)>>, <<MkCategory(1, "Work")>>),
     MkData(<<MkTask(1, 2)>>, <<MkCategory(1, "Work")>>),
     MkData(<<>>, <<MkCategory(1, "Work"), MkCategory(2, "work")>>)}

(***************************************************************************)
(* The handle used from one thread: every call runs to completion.         *)
(***************************************************************************)
Threads == 1..NumThreads
NoTx == [active |-> FALSE, tables |-> NoTables]
NoJob == [op |-> "none", data |-> NoValue, at |-> 0, before |-> NoTables,
          read |-> NoTables, failed |-> "none"]

Called(op, arg, r) == [op |-> op, arg |-> arg, ok |-> r.ok, err |-> r.err, val |-> r.val]

Init ==
    /\ backend \in Backends
    /\ file \in IF backend = "sqlite" THEN {FileMissing}
                ELSE {FileMissing, FileBlank}
    /\ db = IF backend = "sqlite" THEN DbFresh ELSE DbUninitialized
    /\ now = 0
    /\ last = Called("new", NoValue, Ok(NoValue))
    /\ input = NoValue
    /\ constructed = TRUE
    /\ mutex = 0
    /\ pc = [t \in Threads |-> "idle"]
    /\ job = [t \in Threads |-> NoJob]
    /\ tx = NoTx
    /\ current_category = None
    /\ old_storage_type = None

Idle == UNCHANGED <<backend, now, input, constructed, mutex, pc, job, tx,
                    current_category, old_storage_type>>

\* a mutating call: the store it leaves and the record of the call
Mutate(op, arg, o) ==
    /\ file' = o.file
    /\ db' = o.db
    /\ last' = Called(op, arg, o)
    /\ Idle

Load ==
    /\ last' = Called("load", NoValue, load(backend, file, db, now))
    /\ UNCHANGED <<file, db>>
    /\ Idle

Save ==
    \E data \in SaveInputs :
        Mutate("save", data, save(backend, file, db, data))

AddTask ==
    \E task \in TaskInputs :
        /\ Len(PersistedTasks) < MaxTasks
        /\ Mutate("add_task", task, add_task(backend, file, db, now, task))

UpdateTask ==
    \E task \in TaskInputs :
        Mutate("update_task", task, update_task(backend, file, db, now, task))

MoveTaskToCategory ==
    \E task_id \in TaskIds, new_category_id \in CategoryIds :
        Mutate("move_task_to_category", <<task_id, new_category_id>>,
               move_task_to_category(backend, file, db, now, task_id,
                                     new_category_id))

AddCategory ==
    \E category \in CategoryInputs :
        /\ Len(PersistedCategories) < MaxCats
        /\ Mutate("add_category", category,
                  add_category(backend, file, db, now, category))

UpdateCategory ==
    \E category \in CategoryInputs :
        Mutate("update_category", category,
               update_category(backend, file, db, now, category))

DeleteCategory ==
    \E category_id \in CategoryIds :
        Mutate("delete_category", category_id,
               delete_category(backend, file, db, now, category_id))

ManagerAddCategory ==
    \E name \in NameInputs :
        /\ Len(PersistedCategories) < MaxCats
        /\ Mutate("manager_add_category", name,
                  manager_add_category(backend, file, db, now, name, None))

Next ==
    \/ Load
    \/ Save
    \/ AddTask
    \/ UpdateTask
    \/ MoveTaskToCategory
    \/ AddCategory
    \/ UpdateCategory
    \/ DeleteCategory
    \/ ManagerAddCategory

Spec == Init /\ [][Next]_vars

(***************************************************************************)
(* Round trips: a valid snapshot is saved into an empty store and loaded   *)
(* back through the same handle.                                           *)
(***************************************************************************)
RichTasks ==
    {[MkTask(id, c) EXCEPT !.description = de, !.order = o, !.due_date = du,
                           !.priority = p] :
        id \in {1}, c \in {0, 1}, de \in {None, Some("details")},
        o \in {0, 7}, du \in {None, Some(1)}, p \in {"High", "Medium"}}

RichCategories ==
    {[MkCategory(1, "Work") EXCEPT !.description = de, !.order = o] :
        de \in {None, Some("details")}, o \in {0, 7}}

ConfigCustom == [ConfigDefault EXCEPT !.default_priority = Some("high")]

SeqsUpTo(S, n) == UNION {[1..k -> S] : k \in 0..n}

RoundTripInputs ==
    {data \in
        {[MkData(ts, cs) EXCEPT !.config = cfg, !.current_category = cur] :
            ts \in SeqsUpTo(RichTasks, MaxTasks),
            cs \in SeqsUpTo(RichCategories, 1),
            cfg \in {ConfigDefault, ConfigCustom},
            cur \in {None, Some(1)}} :
        validate(data).ok}

InitRoundTrip ==
    /\ backend \in Backends
    /\ file = FileMissing
    /\ db = IF backend = "sqlite" THEN DbFresh ELSE DbUninitialized
    /\ now = 0
    /\ last = Called("new", NoValue, Ok(NoValue))
    /\ input \in RoundTripInputs
    /\ constructed = TRUE
    /\ mutex = 0
    /\ pc = [t \in Threads |-> "idle"]
    /\ job = [t \in Threads |-> NoJob]
    /\ tx = NoTx
    /\ current_category = None
    /\ old_storage_type = None

SaveInput ==
    /\ last.op = "new"
    /\ Mutate("save", input, save(backend, file, db, input))

LoadBack ==
    /\ last.op = "save"
    /\ Load

NextRoundTrip == SaveInput \/ LoadBack

SpecRoundTrip == InitRoundTrip /\ [][NextRoundTrip]_vars

\* C1: a snapshot that satisfies the invariants is accepted by save, and the
\* load that follows returns a snapshot equal to it, on every backend.
C1_RoundTrip ==
    /\ last.op = "save" => last.ok
    /\ last.op = "load" => (last.ok /\ last.val = input)

(***************************************************************************)
(* Claims about the handle used from one thread (Spec).                    *)
(***************************************************************************)
ValidationErrors == {"InvalidTaskCategory", "DuplicateCategory"}

\* C2: save of a snapshot holding a task whose non-zero category_id names no
\* category of that snapshot returns a Validation error and writes nothing.
C2_DanglingSaveRejected ==
    [][(last'.op = "save" /\ DanglingTasks(last'.arg) # {})
        => (/\ ~last'.ok
            /\ last'.err \in ValidationErrors
            /\ Persisted' = Persisted)]_vars

\* C3: every persisted task whose category_id is not 0 has a persisted
\* category with that id.
C3_NoDanglingReference ==
    \A i \in 1..Len(PersistedTasks) :
        PersistedTasks[i].category_id # 0
            => \E j \in 1..Len(PersistedCategories) :
                  PersistedCategories[j].id = PersistedTasks[i].category_id

\* C6: a snapshot returned by load satisfies the invariants: no dangling
\* category reference, no two category names equal ignoring case.
C6_LoadReturnsValid ==
    (last.op = "load" /\ last.ok) => validate(last.val).ok

PersistedNamesDistinct ==
    \A i, j \in 1..Len(PersistedCategories) :
        i # j => to_lowercase(PersistedCategories[i].name)
                    # to_lowercase(PersistedCategories[j].name)

\* C7: persisted category names are pairwise distinct ignoring case.
C7_NamesDistinct == PersistedNamesDistinct

\* a stored category has this name, compared without regard to case
StoredIgnoringCase(name) ==
    \E j \in 1..Len(PersistedCategories) :
        to_lowercase(PersistedCategories[j].name) = to_lowercase(name)

\* C8 as stated: CategoryManager::add_category with a name equal, ignoring
\* case, to a stored category's name fails with a DuplicateCategory error
\* and leaves the store unchanged.
C8_DuplicateCategoryError ==
    [][(last'.op = "manager_add_category"
            /\ StoredIgnoringCase(last'.arg))
        => (/\ ~last'.ok
            /\ last'.err = "DuplicateCategory"
            /\ Persisted' = Persisted)]_vars

\* C8 amended: the call fails with CategoryError::DuplicateName and leaves
\* the store unchanged.
C8_DuplicateNameError ==
    [][(last'.op = "manager_add_category"
            /\ StoredIgnoringCase(last'.arg))
        => (/\ ~last'.ok
            /\ last'.err = "DuplicateName"
            /\ Persisted' = Persisted)]_vars

\* "Work" is refused while "work" is stored
C8_Witness ==
    /\ last.op = "manager_add_category"
    /\ last.arg = "Work"
    /\ ~last.ok
    /\ \E j \in 1..Len(PersistedCategories) : PersistedCategories[j].name = "work"

StoreIsEmpty ==
    IF backend = "sqlite" THEN db.has_schema /\ db.tables = NoTables
    ELSE file.kind \in {"missing", "blank"}

\* C9: load on a missing file, a file holding only whitespace or a database
\* with no rows returns Ok with no tasks and no categories.
C9_EmptyStoreLoads ==
    (last.op = "load" /\ StoreIsEmpty)
        => (last.ok /\ last.val.tasks = <<>> /\ last.val.categories = <<>>)

(***************************************************************************)
(* Rows written straight through the connection, as the tests of           *)
(* storage/sqlite.rs do, and then read by load.                            *)
(***************************************************************************)
StoredTokens == {"high", "medium", "low"}
RawTokens == StoredTokens \cup {"HIGH", "INVALID_PRIORITY"}
RawDates == {to_rfc3339(0), NotADate}
\* the category the tests insert, and one that is never stored
RawCategoryIds == {1, 999}

RawCategoryRows ==
    {[id |-> 1, name |-> "Test Category", created_at |-> c] : c \in RawDates}

RawTaskRows ==
    {[id |-> i, title |-> "Test Task", category_id |-> k, completed |-> FALSE,
      priority |-> p, created_at |-> c, updated_at |-> u] :
        i \in 1..MaxTasks, k \in RawCategoryIds, p \in RawTokens,
        c \in RawDates, u \in RawDates}

InitRaw ==
    /\ backend = "sqlite"
    /\ file = FileMissing
    /\ db = DbFresh
    /\ now = 0
    /\ last = Called("new", NoValue, Ok(NoValue))
    /\ input = NoValue
    /\ constructed = TRUE
    /\ mutex = 0
    /\ pc = [t \in Threads |-> "idle"]
    /\ job = [t \in Threads |-> NoJob]
    /\ tx = NoTx
    /\ current_category = None
    /\ old_storage_type = None

\* conn.execute("INSERT INTO ...") outside any save
DirectInsert(kind, row) ==
    LET r == Execute(db.tables, db.foreign_keys, [kind |-> kind, row |-> row]) IN
    /\ db' = IF r.ok THEN [db EXCEPT !.tables = r.val] ELSE db
    /\ last' = Called(kind, row, IF r.ok THEN Ok(NoValue) ELSE Err(r.err))
    /\ UNCHANGED file
    /\ Idle

DirectInsertCategory ==
    \E row \in RawCategoryRows : DirectInsert("insert_category", row)

DirectInsertTask ==
    \E row \in RawTaskRows : DirectInsert("insert_task", row)

NextRaw == DirectInsertCategory \/ DirectInsertTask \/ Load

SpecRaw == InitRaw /\ [][NextRaw]_vars

RowDatesValid ==
    /\ \A c \in db.tables.categories : c.created_at.rfc3339
    /\ \A r \in db.tables.tasks : r.created_at.rfc3339 /\ r.updated_at.rfc3339

\* every task of the loaded snapshot carries the priority and the instants
\* its row spells out
LoadedAsStored(MatchToken(_, _)) ==
    \A i \in 1..Len(last.val.tasks) :
        \E r \in db.tables.tasks :
            /\ r.id = last.val.tasks[i].id
            /\ MatchToken(priority_to_string(last.val.tasks[i].priority), r.priority)
            /\ to_rfc3339(last.val.tasks[i].created_at) = r.created_at
            /\ to_rfc3339(last.val.tasks[i].updated_at) = r.updated_at

SameToken(token, stored) == token = stored
SameTokenIgnoringCase(token, stored) == token = to_lowercase(stored)

\* C10 as stated: relational load fails whenever a task row's priority is
\* not one of the tokens high, medium, low or a row's timestamp is not
\* RFC3339; a snapshot it returns carries what the rows say, no default.
C10_StrictTokens ==
    last.op = "load" =>
        /\ ((\E r \in db.tables.tasks : r.priority \notin StoredTokens)
                => ~last.ok)
        /\ (~RowDatesValid => ~last.ok)
        /\ (last.ok => LoadedAsStored(SameToken))

\* C10 amended: the token is compared ignoring case.
C10_TokensIgnoringCase ==
    last.op = "load" =>
        /\ ((\E r \in db.tables.tasks : to_lowercase(r.priority) \notin StoredTokens)
                => (~last.ok /\ last.err = "Storage"))
        /\ (~RowDatesValid => (~last.ok /\ last.err = "Storage"))
        /\ (last.ok => LoadedAsStored(SameTokenIgnoringCase))

\* load has refused a row whose priority is INVALID_PRIORITY and whose dates
\* are fine
C10_Witness ==
    /\ last.op = "load"
    /\ ~last.ok
    /\ RowDatesValid
    /\ \E r \in db.tables.tasks : r.priority = "INVALID_PRIORITY"

(***************************************************************************)
(* storage/migrations.rs.  A migration is its version and the schema       *)
(* object its up SQL creates and its down SQL drops, as the migration of   *)
(* test_migration_system does with the table "test".                       *)
(***************************************************************************)
Migration(version, object) == [version |-> version, object |-> object]

MIGRATIONS == <<>>

\* the part of the database a migration batch works on
SchemaOf(d) == [schema_version |-> d.schema_version, objects |-> d.objects]

get_current_version(d) ==
    IF d.has_schema /\ d.schema_version # <<>>
    THEN Ok(d.schema_version[1])
    ELSE Err("Storage")

\* MIGRATIONS.first(): the version of the oldest migration
latest_version_of_first(migrations) ==
    IF migrations = <<>> THEN 0 ELSE migrations[1].version

\* MIGRATIONS.last().map(|m| m.version).unwrap_or(0)
latest_version(migrations) ==
    IF migrations = <<>> THEN 0 ELSE migrations[Len(migrations)].version

\* the up SQL alone, the stored version left as it is
apply_migration_unversioned(m) ==
    <<[kind |-> "up", version |-> m.version, object |-> m.object]>>

apply_migration(m) ==
    <<[kind |-> "up", version |-> m.version, object |-> m.object],
      [kind |-> "set_version", version |-> m.version, object |-> m.object]>>

rollback_migration(m) ==
    <<[kind |-> "down", version |-> m.version, object |-> m.object],
      [kind |-> "set_version", version |-> m.version - 1, object |-> m.object]>>

Reverse(s) == [i \in 1..Len(s) |-> s[Len(s) + 1 - i]]

RECURSIVE Flatten(_)
Flatten(seqs) ==
    IF seqs = <<>> THEN <<>> ELSE Head(seqs) \o Flatten(Tail(seqs))

\* one statement inside the migration transaction
ExecuteSchema(w, stmt) ==
    CASE stmt.kind = "up" ->
            IF stmt.object \in w.objects THEN Err("Storage")
            ELSE Ok([w EXCEPT !.objects = @ \cup {stmt.object}])
      [] stmt.kind = "down" ->
            IF stmt.object \notin w.objects THEN Err("Storage")
            ELSE Ok([w EXCEPT !.objects = @ \ {stmt.object}])
      [] stmt.kind = "set_version" ->
            Ok([w EXCEPT !.schema_version = [k \in 1..Len(@) |-> stmt.version]])

\* conn.transaction(), the statements, tx.commit(): step number fault, when
\* there is one, is refused by the database
RECURSIVE RunBatch(_, _, _, _)
RunBatch(w, stmts, i, fault) ==
    IF i > Len(stmts) + 2 THEN Ok(w)
    ELSE IF i = fault THEN [ok |-> FALSE, err |-> "Storage", val |-> w]
    ELSE IF i = 1 \/ i = Len(stmts) + 2 THEN RunBatch(w, stmts, i + 1, fault)
    ELSE LET r == ExecuteSchema(w, stmts[i - 1]) IN
         IF r.ok THEN RunBatch(r.val, stmts, i + 1, fault)
         ELSE [ok |-> FALSE, err |-> r.err, val |-> w]

\* the call's result, the statements it ran to the end, the database it leaves
MigrationOutcome(r, ran, d) ==
    [ok |-> r.ok, err |-> r.err, val |-> ran, db |-> d]

InTransaction(d, stmts, fault) ==
    LET r == RunBatch(SchemaOf(d), stmts, 1, fault)
        w == IF r.ok THEN Commit(SchemaOf(d), r.val) ELSE Rollback(SchemaOf(d), r.val)
    IN MigrationOutcome(r, IF r.ok THEN stmts ELSE <<>>,
                        [d EXCEPT !.schema_version = w.schema_version,
                                  !.objects = w.objects])

apply_migrations(d, migrations, fault) ==
    LET current_version == get_current_version(d) IN
    IF ~current_version.ok THEN MigrationOutcome(current_version, <<>>, d)
    ELSE IF current_version.val < latest_version(migrations)
    THEN LET pending == SelectSeq(migrations,
                                  LAMBDA m : m.version > current_version.val)
         IN InTransaction(d, Flatten([i \in 1..Len(pending) |->
                                          apply_migration(pending[i])]), fault)
    ELSE MigrationOutcome(Ok(NoValue), <<>>, d)

\* the version row is inserted on every call
initialize_schema_reseeding(d, migrations, fault) ==
    apply_migrations([d EXCEPT !.foreign_keys = TRUE, !.has_schema = TRUE,
                               !.schema_version = Append(@, SCHEMA_VERSION)],
                     migrations, fault)

\* SqliteStorage::initialize_schema as one call on a connection: the pragma,
\* CREATE TABLE IF NOT EXISTS, the version row when there is none, then the
\* pending migrations
initialize_schema(d, migrations, fault) ==
    apply_migrations([d EXCEPT !.foreign_keys = TRUE, !.has_schema = TRUE,
                               !.schema_version =
                                   IF @ = <<>> THEN <<SCHEMA_VERSION>> ELSE @],
                     migrations, fault)

rollback_migrations(d, migrations, target_version, fault) ==
    LET current_version == get_current_version(d) IN
    IF ~current_version.ok THEN MigrationOutcome(current_version, <<>>, d)
    ELSE IF current_version.val > target_version
    THEN IF target_version = 0 /\ current_version.val = 1
         THEN InTransaction(d, <<[kind |-> "set_version", version |-> 0,
                                  object |-> "none"]>>, fault)
         ELSE LET reverted ==
                      Reverse(SelectSeq(migrations,
                                  LAMBDA m : /\ m.version > target_version
                                             /\ m.version <= current_version.val))
              IN InTransaction(d, Flatten([i \in 1..Len(reverted) |->
                                               rollback_migration(reverted[i])]), fault)
    ELSE MigrationOutcome(Ok(NoValue), <<>>, d)

(***************************************************************************)
(* One SqliteStorage shared by several threads: every call takes the       *)
(* connection's mutex, works statement by statement, and releases it when  *)
(* the guard is dropped at the end of the call.                            *)
(***************************************************************************)
\* positions at which a thread uses the connection
ConnPcs ==
    {"init_pragma", "init_schema", "init_version", "init_migrate", "init_unlock",
     "save_begin", "save_exec", "save_commit", "save_rollback", "save_unlock",
     "load_categories", "load_tasks", "load_unlock"}

LockPcs == {"init_lock", "save_lock", "load_lock"}

\* what a statement on the connection sees: its own open transaction
Visible == IF tx.active THEN tx.tables ELSE db.tables

TablesOf(data) ==
    [categories |-> {CategoryRow(data.categories[i]) : i \in 1..Len(data.categories)},
     tasks |-> {TaskRow(data.tasks[i]) : i \in 1..Len(data.tasks)}]

InitShared ==
    /\ backend = "sqlite"
    /\ file = FileMissing
    /\ db = DbUninitialized
    /\ now = 0
    /\ last = Called("none", NoValue, Ok(NoValue))
    /\ input = NoValue
    /\ constructed = FALSE
    /\ mutex = 0
    /\ pc = [t \in Threads |-> IF t = 1 THEN "init_lock" ELSE "idle"]
    /\ job = [t \in Threads |-> NoJob]
    /\ tx = NoTx
    /\ current_category = None
    /\ old_storage_type = None

\* the always-changing outcome of self.conn.lock(): free, or held by another
CanLockAlways(t) == TRUE

\* Mutex::lock returns once no other thread holds the guard
CanLock(t) == mutex = 0

Goto(t, to) == pc' = [pc EXCEPT ![t] = to]
Fixed == UNCHANGED <<backend, file, now, input, current_category, old_storage_type>>

Acquire(t, from, to) ==
    /\ pc[t] = from
    /\ CanLock(t)
    /\ mutex' = t
    /\ Goto(t, to)
    /\ job' = [job EXCEPT ![t].before = db.tables]
    /\ UNCHANGED <<db, last, constructed, tx>>
    /\ Fixed

Release(t, from, op, r) ==
    /\ pc[t] = from
    /\ mutex' = IF mutex = t THEN 0 ELSE mutex
    /\ Goto(t, "idle")
    /\ last' = Called(op, NoValue, r)
    /\ job' = [job EXCEPT ![t] = NoJob]
    /\ UNCHANGED <<db, tx>>
    /\ Fixed

\* SqliteStorage::new -> initialize_schema
InitLock(t) ==
    /\ ~constructed
    /\ Acquire(t, "init_lock", "init_pragma")

InitPragma(t) ==
    /\ pc[t] = "init_pragma"
    /\ db' = [db EXCEPT !.foreign_keys = TRUE]
    /\ Goto(t, "init_schema")
    /\ UNCHANGED <<last, constructed, mutex, job, tx>>
    /\ Fixed

InitSchema(t) ==
    /\ pc[t] = "init_schema"
    /\ db' = [db EXCEPT !.has_schema = TRUE]
    /\ Goto(t, "init_version")
    /\ UNCHANGED <<last, constructed, mutex, job, tx>>
    /\ Fixed

InitVersion(t) ==
    /\ pc[t] = "init_version"
    /\ db' = IF db.schema_version = <<>>
             THEN [db EXCEPT !.schema_version = <<SCHEMA_VERSION>>]
             ELSE db
    /\ Goto(t, "init_migrate")
    /\ UNCHANGED <<last, constructed, mutex, job, tx>>
    /\ Fixed

InitMigrate(t) ==
    /\ pc[t] = "init_migrate"
    /\ db' = apply_migrations(db, MIGRATIONS, 0).db
    /\ Goto(t, "init_unlock")
    /\ UNCHANGED <<last, constructed, mutex, job, tx>>
    /\ Fixed

InitUnlock(t) ==
    /\ Release(t, "init_unlock", "new", Ok(NoValue))
    /\ constructed' = TRUE

\* SqliteStorage::save
SaveCall(t) ==
    \E data \in SaveInputs :
        /\ constructed
        /\ pc[t] = "idle"
        /\ Goto(t, "save_lock")
        /\ job' = [job EXCEPT ![t] = [NoJob EXCEPT !.op = "save", !.data = data]]
        /\ UNCHANGED <<db, last, constructed, mutex, tx>>
        /\ Fixed

SaveLock(t) == Acquire(t, "save_lock", "save_begin")

SaveBegin(t) ==
    /\ pc[t] = "save_begin"
    /\ \/ /\ tx' = [active |-> TRUE, tables |-> Visible]
          /\ Goto(t, "save_exec")
          /\ job' = [job EXCEPT ![t].at = 1]
       \/ /\ tx' = tx
          /\ Goto(t, "save_unlock")
          /\ job' = [job EXCEPT ![t].failed = "Storage"]
    /\ UNCHANGED <<db, last, constructed, mutex>>
    /\ Fixed

\* the next statement of the transaction: it runs, it is refused by a
\* constraint, or the database reports a failure of its own
SaveExec(t) ==
    LET stmts == SaveStatements(job[t].data)
        r == Execute(tx.tables, db.foreign_keys, stmts[job[t].at])
    IN /\ pc[t] = "save_exec"
       /\ job[t].at <= Len(stmts)
       /\ \/ /\ r.ok
             /\ tx' = [tx EXCEPT !.tables = r.val]
             /\ job' = [job EXCEPT ![t].at = @ + 1]
             /\ Goto(t, IF job[t].at = Len(stmts) THEN "save_commit" ELSE "save_exec")
          \/ /\ ~r.ok
             /\ tx' = tx
             /\ job' = [job EXCEPT ![t].failed = r.err]
             /\ Goto(t, "save_rollback")
          \/ /\ tx' = tx
             /\ job' = [job EXCEPT ![t].failed = "Sqlite"]
             /\ Goto(t, "save_rollback")
       /\ UNCHANGED <<db, last, constructed, mutex>>
       /\ Fixed

SaveCommit(t) ==
    /\ pc[t] = "save_commit"
    /\ \/ /\ db' = [db EXCEPT !.tables = Commit(db.tables, tx.tables)]
          /\ tx' = NoTx
          /\ Goto(t, "save_unlock")
          /\ job' = job
       \/ /\ db' = db
          /\ tx' = tx
          /\ Goto(t, "save_rollback")
          /\ job' = [job EXCEPT ![t].failed = "Storage"]
    /\ UNCHANGED <<last, constructed, mutex>>
    /\ Fixed

\* the error return drops the Transaction
SaveRollback(t) ==
    /\ pc[t] = "save_rollback"
    /\ db' = [db EXCEPT !.tables = Rollback(db.tables, tx.tables)]
    /\ tx' = NoTx
    /\ Goto(t, "save_unlock")
    /\ UNCHANGED <<last, constructed, mutex, job>>
    /\ Fixed

SaveUnlock(t) ==
    /\ Release(t, "save_unlock", "save",
               IF job[t].failed = "none" THEN Ok(NoValue) ELSE Err(job[t].failed))
    /\ UNCHANGED constructed

\* SqliteStorage::load
LoadCall(t) ==
    /\ constructed
    /\ pc[t] = "idle"
    /\ Goto(t, "load_lock")
    /\ job' = [job EXCEPT ![t] = [NoJob EXCEPT !.op = "load"]]
    /\ UNCHANGED <<db, last, constructed, mutex, tx>>
    /\ Fixed

LoadLock(t) == Acquire(t, "load_lock", "load_categories")

LoadCategories(t) ==
    /\ pc[t] = "load_categories"
    /\ job' = [job EXCEPT ![t].read.categories = Visible.categories]
    /\ Goto(t, "load_tasks")
    /\ UNCHANGED <<db, last, constructed, mutex, tx>>
    /\ Fixed

LoadTasks(t) ==
    /\ pc[t] = "load_tasks"
    /\ job' = [job EXCEPT ![t].read.tasks = Visible.tasks]
    /\ Goto(t, "load_unlock")
    /\ UNCHANGED <<db, last, constructed, mutex, tx>>
    /\ Fixed

LoadUnlock(t) ==
    /\ Release(t, "load_unlock", "load",
               IF ReadCategories(job[t].read).ok /\ ReadTasks(job[t].read).ok
               THEN Ok(NoValue) ELSE Err("Storage"))
    /\ UNCHANGED constructed

NextShared ==
    \E t \in Threads :
        \/ InitLock(t)
        \/ InitPragma(t)
        \/ InitSchema(t)
        \/ InitVersion(t)
        \/ InitMigrate(t)
        \/ InitUnlock(t)
        \/ SaveCall(t)
        \/ SaveLock(t)
        \/ SaveBegin(t)
        \/ SaveExec(t)
        \/ SaveCommit(t)
        \/ SaveRollback(t)
        \/ SaveUnlock(t)
        \/ LoadCall(t)
        \/ LoadLock(t)
        \/ LoadCategories(t)
        \/ LoadTasks(t)
        \/ LoadUnlock(t)

SpecShared == InitShared /\ [][NextShared]_vars

\* C4: a relational save is all-or-nothing.  The committed rows change only
\* at the commit of a save, and then to exactly the rows of its snapshot; a
\* save that returns an error leaves the rows that were there when it began,
\* one that returns Ok leaves the rows of its snapshot; and a load returns
\* rows that are the committed rows, never those of an open transaction.
C4_SaveAllOrNothing ==
    [][/\ db.tables' # db.tables
           => \E t \in Threads :
                 /\ pc[t] = "save_commit"
                 /\ db.tables' = TablesOf(job[t].data)
       /\ \A t \in Threads :
             (pc[t] = "save_unlock" /\ pc'[t] = "idle")
                 => IF job[t].failed = "none"
                    THEN db.tables' = TablesOf(job[t].data)
                    ELSE db.tables' = job[t].before
       /\ \A t \in Threads :
             (pc[t] = "load_unlock" /\ pc'[t] = "idle")
                 => job[t].read = db.tables']_vars

\* a save has failed after its transaction had already replaced rows, and
\* the rows stored before it are back
C4_Witness ==
    \E t \in Threads :
        /\ pc[t] = "save_unlock"
        /\ job[t].failed # "none"
        /\ job[t].at > 2
        /\ job[t].before # NoTables
        /\ db.tables = job[t].before
        /\ ~tx.active

\* C5: load, save and the initialization batch use the connection only while
\* they hold its mutex, so at most one of them is inside the connection at a
\* time and an open transaction always belongs to the holder.
C5_Serialized ==
    /\ \A t \in Threads : pc[t] \in ConnPcs => mutex = t
    /\ \A t, u \in Threads : (pc[t] \in ConnPcs /\ pc[u] \in ConnPcs) => t = u
    /\ tx.active => \E t \in Threads : mutex = t /\ job[t].op = "save"

\* one thread is inside a save while another waits for the lock
C5_Witness ==
    \E t, u \in Threads :
        /\ t # u
        /\ pc[t] = "save_exec"
        /\ pc[u] \in LockPcs

\* C11: on an initialized relational backend an insert of a task row whose
\* category_id matches no row of categories is refused, also when it goes
\* straight through the connection, and no stored task row ever references
\* a missing category.
C11_ForeignKeyEnforced ==
    [][/\ (/\ last'.op = "insert_task"
            /\ ~\E c \in db.tables.categories : c.id = last'.arg.category_id)
           => (~last'.ok /\ db' = db)
       /\ \A r \in db'.tables.tasks :
              \E c \in db'.tables.categories : c.id = r.category_id]_vars

\* with a category stored, a task row naming category 999 was refused
C11_Witness ==
    /\ last.op = "insert_task"
    /\ last.arg.category_id = 999
    /\ ~last.ok
    /\ db.tables.categories # {}
    /\ db.tables.tasks = {}

(***************************************************************************)
(* The migration engine on one connection: apply_migrations and            *)
(* rollback_migrations called in any order, over the list the binary was   *)
(* built with.                                                             *)
(***************************************************************************)
\* the list of the source, and lists written as its comments describe
MigrationLists ==
    {MIGRATIONS,
     <<Migration(2, "test")>>,
     <<Migration(2, "test"), Migration(3, "due_date")>>,
     <<Migration(2, "test"), Migration(4, "due_date")>>}

TargetVersions == {-1, 0, 1, 2, 3}

\* 0: every step runs; k: step k of the transaction is refused
Faults == 0..MaxFault

InitMigrations ==
    /\ backend = "sqlite"
    /\ file = FileMissing
    /\ db \in {DbFresh, DbUninitialized}
    /\ now = 0
    /\ last = Called("new", NoValue, Ok(NoValue))
    /\ input \in MigrationLists
    /\ constructed = TRUE
    /\ mutex = 0
    /\ pc = [t \in Threads |-> "idle"]
    /\ job = [t \in Threads |-> NoJob]
    /\ tx = NoTx
    /\ current_category = None
    /\ old_storage_type = None

\* the call before this one
Previous == [op |-> last.op, ok |-> last.ok]

ApplyMigrations ==
    \E fault \in Faults :
        LET o == apply_migrations(db, input, fault) IN
        /\ db' = o.db
        /\ last' = Called("apply_migrations",
                          [fault |-> fault, target |-> 0, after |-> Previous], o)
        /\ UNCHANGED file
        /\ Idle

RollbackMigrations ==
    \E target_version \in TargetVersions, fault \in Faults :
        LET o == rollback_migrations(db, input, target_version, fault) IN
        /\ db' = o.db
        /\ last' = Called("rollback_migrations",
                          [fault |-> fault, target |-> target_version,
                           after |-> Previous], o)
        /\ UNCHANGED file
        /\ Idle

\* SqliteStorage::new on the file, again
InitializeSchema ==
    \E fault \in Faults :
        LET o == initialize_schema(db, input, fault) IN
        /\ db' = o.db
        /\ last' = Called("initialize_schema",
                          [fault |-> fault, target |-> 0, after |-> Previous], o)
        /\ UNCHANGED file
        /\ Idle

NextMigrate == ApplyMigrations \/ RollbackMigrations \/ InitializeSchema

SpecMigrate == InitMigrations /\ [][NextMigrate]_vars

VersionsBetween(low, high) ==
    {input[i].version : i \in {j \in 1..Len(input) :
                                 input[j].version > low /\ input[j].version <= high}}

ObjectsBetween(low, high) ==
    {input[i].object : i \in {j \in 1..Len(input) :
                                input[j].version > low /\ input[j].version <= high}}

HighestVersion == MaxOf({input[i].version : i \in 1..Len(input)} \cup {0})

\* C12: when a step of an apply_migrations batch fails, nothing of the batch
\* remains: the schema and the stored version are those before the call.
C12_BatchRolledBack ==
    [][(last'.op = "apply_migrations" /\ ~last'.ok) => db' = db]_vars

\* the second migration of a batch failed after the first had run
C12_Witness ==
    /\ last.op = "apply_migrations"
    /\ ~last.ok
    /\ last.arg.fault = 4
    /\ Len(input) = 2
    /\ db.schema_version = <<1>>
    /\ db.objects = {}

\* C13: a successful apply_migrations runs the up SQL of exactly the
\* migrations above the stored version, each once, in ascending order, each
\* followed by setting the stored version to its version; afterwards the
\* stored version is the larger of its prior value and the highest migration
\* version; no call lowers the stored version.
C13_AppliesPending ==
    [][last'.op = "apply_migrations" =>
        /\ get_current_version(db).ok =>
              /\ get_current_version(db').ok
              /\ get_current_version(db').val >= get_current_version(db).val
        /\ last'.ok =>
              LET prior == get_current_version(db).val
                  ran == last'.val
                  n == Cardinality(VersionsBetween(prior, HighestVersion))
              IN /\ Len(ran) = 2 * n
                 /\ \A k \in 1..n :
                       /\ ran[2 * k - 1].kind = "up"
                       /\ ran[2 * k].kind = "set_version"
                       /\ ran[2 * k].version = ran[2 * k - 1].version
                       /\ k > 1 => ran[2 * k - 1].version > ran[2 * k - 3].version
                 /\ {ran[2 * k - 1].version : k \in 1..n}
                       = VersionsBetween(prior, HighestVersion)
                 /\ db'.objects = db.objects \cup ObjectsBetween(prior, HighestVersion)
                 /\ db'.schema_version
                       = <<IF prior > HighestVersion THEN prior ELSE HighestVersion>>]_vars

\* of two migrations only the one above the stored version was applied
C13_Witness ==
    /\ last.op = "apply_migrations"
    /\ last.ok
    /\ Len(input) = 2
    /\ Len(last.val) = 2
    /\ last.val[1].version = 3
    /\ db.schema_version = <<3>>

\* C14: rollback_migrations with a target below the stored version runs the
\* down SQL of exactly the migrations with target < version <= current, in
\* descending order, and leaves the stored version equal to the target; with
\* a target at or above the stored version it changes nothing.
C14_RollbackToTarget ==
    [][(last'.op = "rollback_migrations" /\ last'.ok) =>
        LET current == get_current_version(db).val
            target == last'.arg.target
            downs == SelectSeq(last'.val, LAMBDA st : st.kind = "down")
        IN IF target < current
           THEN /\ {downs[k].version : k \in 1..Len(downs)}
                      = VersionsBetween(target, current)
                /\ \A k \in 2..Len(downs) : downs[k].version < downs[k - 1].version
                /\ db'.schema_version = <<target>>
           ELSE db' = db]_vars

\* C15: an apply_migrations that follows a successful apply_migrations
\* returns Ok, runs no statement and leaves the schema and the stored version
\* as they were.
C15_SecondApplyNoOp ==
    [][(/\ last'.op = "apply_migrations"
        /\ last'.arg.after = [op |-> "apply_migrations", ok |-> TRUE])
        => (last'.ok /\ last'.val = <<>> /\ db' = db)]_vars

\* a second apply in a row, after the first had applied two migrations
C15_Witness ==
    /\ last.op = "apply_migrations"
    /\ last.arg.after = [op |-> "apply_migrations", ok |-> TRUE]
    /\ last.ok
    /\ Len(input) = 2
    /\ db.objects = {"test", "due_date"}

(***************************************************************************)
(* The provided methods of the Storage trait on a store that already holds *)
(* data, with the clock running.                                           *)
(***************************************************************************)
StampedTask(id, category_id, updated_at) ==
    [MkTask(id, category_id) EXCEPT !.updated_at = updated_at]

\* the data the tests of storage/mod.rs start from (a task in category 0 and
\* no such category), the same with a category 0 as test_large_data_set has,
\* and nothing
StoredSnapshots ==
    {MkData(<<>>, <<>>),
     MkData(<<StampedTask(1, 1, 0), StampedTask(2, 2, 0), StampedTask(4, 0, 1)>>,
            <<MkCategory(1, "Work"), MkCategory(2, "Home")>>),
     MkData(<<StampedTask(1, 1, 0), StampedTask(4, 0, MaxTime)>>,
            <<MkCategory(0, "Deleted"), MkCategory(1, "Work")>>)}

DayThresholds == {0, 1, 3}

InitStored ==
    /\ backend \in Backends
    /\ \E f \in IF backend = "sqlite" THEN {FileMissing} ELSE {FileMissing, FileBlank},
          data \in StoredSnapshots :
          LET d == IF backend = "sqlite" THEN DbFresh ELSE DbUninitialized
              o == save(backend, f, d, data)
          IN \/ file = o.file /\ db = o.db
             \/ file = f /\ db = d
    /\ now = 0
    /\ last = Called("new", NoValue, Ok(NoValue))
    /\ input = NoValue
    /\ constructed = TRUE
    /\ mutex = 0
    /\ pc = [t \in Threads |-> "idle"]
    /\ job = [t \in Threads |-> NoJob]
    /\ tx = NoTx
    /\ current_category = None
    /\ old_storage_type = None

\* chrono::Utc::now() read later
Tick ==
    /\ now < MaxTime
    /\ now' = now + 1
    /\ UNCHANGED <<backend, file, db, last, input, constructed, mutex, pc, job, tx,
                   current_category, old_storage_type>>

GetNextTaskId ==
    /\ last' = Called("get_next_task_id", NoValue,
                      get_next_task_id(backend, file, db, now))
    /\ UNCHANGED <<file, db>>
    /\ Idle

GetNextCategoryId ==
    /\ last' = Called("get_next_category_id", NoValue,
                      get_next_category_id(backend, file, db, now))
    /\ UNCHANGED <<file, db>>
    /\ Idle

DeleteTask ==
    \E task_id \in TaskIds \cup {4} :
        Mutate("delete_task", task_id, delete_task(backend, file, db, now, task_id))

PurgeDeletedTasks ==
    \E days_threshold \in DayThresholds :
        Mutate("purge_deleted_tasks", days_threshold,
               purge_deleted_tasks(backend, file, db, now, days_threshold))

\* add_task and add_category with what Task::new and Category::new return,
\* into a store that holds none yet
AddNewTask ==
    \E category_id \in {0, 1} :
        LET task == TaskNew("Test Task", category_id, None, "Medium", now).val IN
        /\ PersistedTasks = <<>>
        /\ Mutate("add_task", task, add_task(backend, file, db, now, task))

AddNewCategory ==
    LET category == CategoryNew("Test", None, now).val IN
    /\ PersistedCategories = <<>>
    /\ Mutate("add_category", category,
              add_category(backend, file, db, now, category))

SoftDeleteTask ==
    \E task_id \in TaskIds :
        Mutate("soft_delete_task", task_id,
               soft_delete_task(backend, file, db, now, task_id))

NextStored ==
    \/ Tick
    \/ AddNewTask
    \/ AddNewCategory
    \/ SoftDeleteTask
    \/ GetNextTaskId
    \/ GetNextCategoryId
    \/ DeleteTask
    \/ PurgeDeletedTasks
    \/ UpdateTask
    \/ UpdateCategory
    \/ MoveTaskToCategory
    \/ DeleteCategory

SpecStored == InitStored /\ [][NextStored]_vars

\* this step is a call of op
CallOf(op) == last'.op = op /\ now' = now

IdsOf(s) == {s[i].id : i \in 1..Len(s)}

\* C16: get_next_task_id returns 1 on a store with no tasks and otherwise
\* the largest stored task id plus 1; get_next_category_id does the same
\* over the stored categories; neither call changes the store.
C16_NextIds ==
    [][/\ CallOf("get_next_task_id") =>
              /\ last'.ok
              /\ last'.val = IF PersistedTasks = <<>> THEN 1
                             ELSE MaxOf(IdsOf(PersistedTasks)) + 1
              /\ Persisted' = Persisted
       /\ CallOf("get_next_category_id") =>
              /\ last'.ok
              /\ last'.val = IF PersistedCategories = <<>> THEN 1
                             ELSE MaxOf(IdsOf(PersistedCategories)) + 1
              /\ Persisted' = Persisted]_vars

\* what purge_deleted_tasks(d) at the clock's now is to keep
KeptByPurge(x, d) == x.category_id # 0 \/ x.updated_at.instant > now - d

\* C17 as stated: purge_deleted_tasks(d) removes exactly the stored tasks of
\* category 0 whose updated_at is not after now minus d days and keeps every
\* other task as it is; after purge_deleted_tasks(0) no task of category 0
\* remains.
C17_PurgeLeavesNoDeleted ==
    [][CallOf("purge_deleted_tasks") =>
        /\ PersistedTasks' = SelectSeq(PersistedTasks,
                                       LAMBDA x : KeptByPurge(x, last'.arg))
        /\ PersistedCategories' = PersistedCategories
        /\ last'.arg = 0 =>
              \A i \in 1..Len(PersistedTasks') : PersistedTasks'[i].category_id # 0]_vars

\* C17 amended: after purge_deleted_tasks(0) the tasks of category 0 that
\* remain are those stamped later than the clock read by the purge.
C17_PurgeByAge ==
    [][CallOf("purge_deleted_tasks") =>
        /\ PersistedTasks' = SelectSeq(PersistedTasks,
                                       LAMBDA x : KeptByPurge(x, last'.arg))
        /\ PersistedCategories' = PersistedCategories
        /\ last'.arg = 0 =>
              \A i \in 1..Len(PersistedTasks') :
                  PersistedTasks'[i].category_id = 0
                      => PersistedTasks'[i].updated_at.instant > now]_vars

\* a purge kept a younger task of category 0 next to tasks of other
\* categories that are older than the threshold
C17_Witness ==
    /\ last.op = "purge_deleted_tasks"
    /\ last.ok
    /\ last.arg = 1
    /\ now = MaxTime
    /\ \E i \in 1..Len(PersistedTasks) :
          /\ PersistedTasks[i].category_id = 0
          /\ PersistedTasks[i].updated_at.instant = now
    /\ \E i \in 1..Len(PersistedTasks) :
          /\ PersistedTasks[i].category_id # 0
          /\ PersistedTasks[i].updated_at.instant < now - 1
    /\ 4 \notin IdsOf(PersistedTasks)

\* C18: update_task, update_category and move_task_to_category with an id
\* that is not stored return a Storage error naming the id and leave the
\* store as it is.
C18_MissingIdUpdate ==
    [][/\ (CallOf("update_task") /\ last'.arg.id \notin IdsOf(PersistedTasks))
           => /\ ~last'.ok /\ last'.err = "Storage"
              /\ last'.val = <<"id", last'.arg.id>>
              /\ Persisted' = Persisted
       /\ (CallOf("update_category") /\ last'.arg.id \notin IdsOf(PersistedCategories))
           => /\ ~last'.ok /\ last'.err = "Storage"
              /\ last'.val = <<"id", last'.arg.id>>
              /\ Persisted' = Persisted
       /\ (CallOf("move_task_to_category") /\ last'.arg[1] \notin IdsOf(PersistedTasks))
           => /\ ~last'.ok /\ last'.err = "Storage"
              /\ last'.val = <<"id", last'.arg[1]>>
              /\ Persisted' = Persisted]_vars

\* C19: delete_task and delete_category with an id that is not stored
\* return a Storage error naming the id and leave the store as it is.
C19_MissingIdDelete ==
    [][/\ (CallOf("delete_task") /\ last'.arg \notin IdsOf(PersistedTasks))
           => /\ ~last'.ok /\ last'.err = "Storage"
              /\ last'.val = <<"id", last'.arg>>
              /\ Persisted' = Persisted
       /\ (CallOf("delete_category") /\ last'.arg \notin IdsOf(PersistedCategories))
           => /\ ~last'.ok /\ last'.err = "Storage"
              /\ last'.val = <<"id", last'.arg>>
              /\ Persisted' = Persisted]_vars

\* C20: delete_category(id) fails and changes nothing while a stored task
\* has category_id = id; otherwise it removes exactly the category with that
\* id and leaves every task and every other category as it is.
C20_DeleteCategory ==
    [][CallOf("delete_category") =>
        IF \E i \in 1..Len(PersistedTasks) : PersistedTasks[i].category_id = last'.arg
        THEN ~last'.ok /\ Persisted' = Persisted
        ELSE /\ PersistedCategories'
                   = SelectSeq(PersistedCategories, LAMBDA c : c.id # last'.arg)
             /\ PersistedTasks' = PersistedTasks]_vars

\* a category no task refers to was removed while tasks and another category
\* stayed
C20_Witness ==
    /\ last.op = "delete_category"
    /\ last.ok
    /\ last.arg \notin IdsOf(PersistedCategories)
    /\ PersistedTasks # <<>>
    /\ PersistedCategories # <<>>
    /\ \E c \in CategoryInputs : c.id = last.arg

\* C21: a task or category made by Task::new or Category::new (id 0) and
\* added through the storage layer is stored under a non-zero id, and no
\* stored task or category ever has id 0.
C21_NoZeroId ==
    [][/\ ((CallOf("add_task") \/ CallOf("add_category"))
              /\ last'.arg.id = 0 /\ last'.ok)
           => (0 \notin IdsOf(PersistedTasks') /\ 0 \notin IdsOf(PersistedCategories'))
       /\ 0 \notin IdsOf(PersistedTasks')
       /\ 0 \notin IdsOf(PersistedCategories')]_vars

\* C22: soft_delete_task(id) on a stored task succeeds; afterwards the task
\* is stored with category_id 0 and get_deleted_tasks returns it, and every
\* other task and every category is as before.
C22_SoftDelete ==
    [][(CallOf("soft_delete_task") /\ last'.arg \in IdsOf(PersistedTasks)) =>
        LET deleted == get_deleted_tasks(backend, file', db', now) IN
        /\ last'.ok
        /\ Len(PersistedTasks') = Len(PersistedTasks)
        /\ \A i \in 1..Len(PersistedTasks) :
              IF PersistedTasks[i].id = last'.arg
              THEN /\ PersistedTasks'[i].id = last'.arg
                   /\ PersistedTasks'[i].category_id = 0
              ELSE PersistedTasks'[i] = PersistedTasks[i]
        /\ deleted.ok
        /\ last'.arg \in IdsOf(deleted.val)
        /\ PersistedCategories' = PersistedCategories]_vars

(***************************************************************************)
(* Two SqliteStorage values opened on one database file, as                *)
(* test_concurrent_access does: each has its own connection and its own    *)
(* mutex.  Thread 1 saves and loads through the first; thread 2 loads      *)
(* through the second, whose connection sees what is committed when each   *)
(* of its two SELECT statements runs.                                      *)
(***************************************************************************)
InitClone ==
    /\ backend = "sqlite"
    /\ file = FileMissing
    /\ db = DbFresh
    /\ now = 0
    /\ last = Called("new", NoValue, Ok(NoValue))
    /\ input = NoValue
    /\ constructed = TRUE
    /\ mutex = 0
    /\ pc = [t \in Threads |-> "idle"]
    /\ job = [t \in Threads |-> NoJob]
    /\ tx = NoTx
    /\ current_category = None
    /\ old_storage_type = None

\* storage_clone.load(): the lock of the clone, then SELECT .. FROM categories
CloneLoadCategories ==
    /\ pc[2] = "idle"
    /\ pc' = [pc EXCEPT ![2] = "clone_load_tasks"]
    /\ job' = [job EXCEPT ![2] = [NoJob EXCEPT !.op = "load",
                                               !.before = db.tables,
                                               !.read.categories = db.tables.categories]]
    /\ UNCHANGED <<db, last, constructed, mutex, tx>>
    /\ Fixed

\* SELECT .. FROM tasks, and the return
CloneLoadTasks ==
    LET read == [job[2].read EXCEPT !.tasks = db.tables.tasks] IN
    /\ pc[2] = "clone_load_tasks"
    /\ pc' = [pc EXCEPT ![2] = "idle"]
    /\ last' = [Called("clone_load", job[2].before,
                       IF ReadCategories(read).ok /\ ReadTasks(read).ok
                       THEN Ok(NoValue) ELSE Err("Storage"))
                   EXCEPT !.val = read]
    /\ job' = [job EXCEPT ![2] = NoJob]
    /\ UNCHANGED <<db, constructed, mutex, tx>>
    /\ Fixed

NextClone ==
    \/ SaveCall(1)
    \/ SaveLock(1)
    \/ SaveBegin(1)
    \/ SaveExec(1)
    \/ SaveCommit(1)
    \/ SaveRollback(1)
    \/ SaveUnlock(1)
    \/ CloneLoadCategories
    \/ CloneLoadTasks

SpecClone == InitClone /\ [][NextClone]_vars

\* C23: a load through the second instance, running while the first
\* instance saves, returns Ok with the rows that were committed when it began
\* or the rows committed when it ends, never categories of one and tasks of
\* the other.
C23_LoadSeesWholeDataset ==
    last.op = "clone_load" =>
        /\ last.ok
        /\ last.val \in {last.arg, db.tables}

\* C24: after an initialization that succeeds the schema_version table holds
\* exactly one row; on a database without a version row its value is the
\* initial version 1 (raised by the migrations the binary carries, when it
\* carries any); on a database with a version row no row is added and the
\* stored version is not reset.
C24_OneVersionRow ==
    [][(last'.op = "initialize_schema" /\ last'.ok) =>
        /\ Len(db'.schema_version) = 1
        /\ db.schema_version = <<>> =>
              db'.schema_version = <<IF input = MIGRATIONS THEN 1
                                     ELSE MaxOf({1, HighestVersion})>>
        /\ db.schema_version # <<>> =>
              db'.schema_version = <<MaxOf({db.schema_version[1], HighestVersion})>>]_vars

\* initialized again after a rollback to version 0: one row, still 0
C24_Witness ==
    /\ last.op = "initialize_schema"
    /\ last.ok
    /\ last.arg.after = [op |-> "rollback_migrations", ok |-> TRUE]
    /\ input = MIGRATIONS
    /\ db.schema_version = <<0>>

(***************************************************************************)
(* One CategoryManager over a handle: categories are added through it,     *)
(* ordered, listed and selected (category_manager.rs tests,                *)
(* main.rs category commands).                                             *)
(***************************************************************************)
OrderInputs == {0, 1, 2}
ReorderInputs == {<<1>>, <<2>>, <<1, 2>>, <<2, 1>>, <<3>>}

\* a call on the manager: the store and the field it leaves, and its record
ManagerCall(op, arg, o) ==
    /\ file' = o.file
    /\ db' = o.db
    /\ current_category' = o.current
    /\ last' = Called(op, arg, o)
    /\ UNCHANGED <<backend, now, input, constructed, mutex, pc, job, tx,
                   old_storage_type>>

\* CategoryManager::new over the same handle (each run of the binary)
ManagerNew ==
    /\ current_category' = manager_new(backend, file, db, now)
    /\ last' = Called("manager_new", NoValue, Ok(current_category'))
    /\ UNCHANGED <<file, db, backend, now, input, constructed, mutex, pc, job, tx,
                   old_storage_type>>

ListCategories ==
    /\ last' = Called("list_categories", NoValue, list_categories(backend, file, db, now))
    /\ UNCHANGED <<file, db>>
    /\ Idle

SetCategoryOrder ==
    \E category_id \in CategoryIds, new_order \in OrderInputs :
        Mutate("set_category_order", <<category_id, new_order>>,
               set_category_order(backend, file, db, now, category_id, new_order))

ReorderCategories ==
    \E category_ids \in ReorderInputs :
        Mutate("reorder_categories", category_ids,
               reorder_categories(backend, file, db, now, category_ids))

UseCategory ==
    \E category_id \in CategoryIds :
        ManagerCall("use_category", category_id,
                    use_category(backend, file, db, now, current_category, category_id))

ClearCategoryContext ==
    ManagerCall("clear_category_context", NoValue,
                clear_category_context(backend, file, db, now))

GetCurrentCategory ==
    /\ last' = Called("get_current_category", NoValue,
                      Ok(get_current_category(current_category)))
    /\ UNCHANGED <<file, db>>
    /\ Idle

ManagerDeleteCategory ==
    \E category_id \in CategoryIds, new_category_id \in {None} \cup {Some(c) : c \in CategoryIds} :
        ManagerCall("manager_delete_category", <<category_id, new_category_id>>,
                    manager_delete_category(backend, file, db, now, current_category,
                                            category_id, new_category_id))

\* delete_category through a second CategoryManager, created on the same
\* storage before any category was selected: its own current_category is
\* None, and delete_category leaves it None
SecondManagerDeleteCategory ==
    \E category_id \in CategoryIds :
        Mutate("second_manager_delete_category", <<category_id, None>>,
               manager_delete_category(backend, file, db, now, None, category_id, None))

ManagerUpdateCategory ==
    \E category_id \in CategoryIds, new_name \in NameInputs \cup {" "} :
        Mutate("manager_update_category", <<category_id, new_name>>,
               manager_update_category(backend, file, db, now, category_id, new_name))

\* the manager over a store that holds tasks: categories are added, renamed,
\* selected and deleted
NextCategories ==
    \/ AddTask
    \/ ManagerAddCategory
    \/ ManagerDeleteCategory
    \/ SecondManagerDeleteCategory
    \/ ManagerUpdateCategory
    \/ UseCategory
    \/ ClearCategoryContext

SpecCategories == Init /\ [][NextCategories]_vars

NextManager ==
    \/ ManagerNew
    \/ ManagerAddCategory
    \/ ListCategories
    \/ SetCategoryOrder
    \/ ReorderCategories
    \/ UseCategory
    \/ ClearCategoryContext
    \/ GetCurrentCategory

SpecManager == Init /\ [][NextManager]_vars

\* C25: list_categories returns every stored category and exactly one entry
\* with id 0 named Uncategorized, sorted by ascending order and then by name,
\* and the Uncategorized entry is the first element whatever orders were set.
C25_UncategorizedFirst ==
    (last.op = "list_categories" /\ last.ok) =>
        LET listed == last.val
            stored == load(backend, file, db, now).val.categories
        IN /\ Len(listed) = Len(stored) + 1
           /\ \A i \in 1..Len(stored) : \E j \in 1..Len(listed) : listed[j] = stored[i]
           /\ Cardinality({j \in 1..Len(listed) : listed[j].id = 0}) = 1
           /\ \A j \in 1..Len(listed) : listed[j].id = 0 => listed[j].name = "Uncategorized"
           /\ \A j \in 1..(Len(listed) - 1) : ~CategoryLess(listed[j + 1], listed[j])
           /\ listed[1].id = 0

\* C26: get_current_category is Some(0) while nothing is selected; after a
\* use_category(id) that succeeds it is Some(id) and a load returns id as the
\* current category; after clear_category_context it is Some(0) and a load
\* returns no current category; use_category on an id that is not stored
\* fails and changes neither the manager's field nor the stored one.
C26_CategoryContext ==
    /\ [](/\ (last.op = "get_current_category" /\ current_category = None) =>
                 last.val = Some(0)
          /\ (last.op = "use_category" /\ last.ok) =>
                 /\ get_current_category(current_category) = Some(last.arg)
                 /\ manager_new(backend, file, db, now) = Some(last.arg)
          /\ (last.op = "clear_category_context" /\ last.ok) =>
                 /\ get_current_category(current_category) = Some(0)
                 /\ manager_new(backend, file, db, now) = None)
    /\ [][(last'.op = "use_category" /\ last'.arg \notin IdsOf(PersistedCategories)) =>
              /\ ~last'.ok
              /\ current_category' = current_category
              /\ manager_new(backend, file', db', now) = manager_new(backend, file, db, now)]_vars

\* C27: CategoryManager::add_category, when it succeeds, stores exactly one
\* new category, whose id is the largest stored category id plus 1 (1 when
\* none is stored), non-zero and different from every stored id, whose order
\* equals that id, and returns that id; the categories that were stored and
\* all tasks are unchanged.
C27_ManagerAddCategory ==
    [][(last'.op = "manager_add_category" /\ last'.ok) =>
        LET before == load(backend, file, db, now).val
            after == load(backend, file', db', now).val
            id == last'.val
        IN /\ id = MaxOf(IdsOf(before.categories)) + 1
           /\ id # 0
           /\ id \notin IdsOf(before.categories)
           /\ Len(after.categories) = Len(before.categories) + 1
           /\ \E k \in 1..Len(after.categories) :
                  /\ after.categories[k].id = id
                  /\ after.categories[k].name = last'.arg
                  /\ after.categories[k].order = id
           /\ \A i \in 1..Len(before.categories) :
                  \E j \in 1..Len(after.categories) :
                      after.categories[j] = before.categories[i]
           /\ after.tasks = before.tasks]_vars

(***************************************************************************)
(* main.rs: one run of the binary with the arguments `config reset`, and   *)
(* the line read from stdin.                                               *)
(***************************************************************************)
Answers == {"y\n", "Y\n", " y \n", "n\n", "yes\n", "\n"}

\* str::trim on the lines the model reads
trim(s) ==
    CASE s = "y\n" -> "y"
      [] s = "Y\n" -> "Y"
      [] s = " y \n" -> "y"
      [] s = "n\n" -> "n"
      [] s = "yes\n" -> "yes"
      [] s = "\n" -> ""
      [] OTHER -> s

initialize_default_categories(b, f, d, t) ==
    LET l == load(b, f, d, t) IN
    IF ~l.ok THEN Unchanged(l, f, d)
    ELSE IF l.val.categories = <<>>
    THEN LET home == [CategoryNew("Home", Some("Home tasks"), t).val EXCEPT !.id = 1]
             work == [CategoryNew("Work", Some("Work tasks"), t).val EXCEPT !.id = 2]
         IN save(b, f, d, [l.val EXCEPT !.categories = @ \o <<home, work>>])
    ELSE Unchanged(Ok(NoValue), f, d)

\* main() up to the end of the ConfigCommands::Reset arm; an Err stands for
\* process::exit(1)
config_reset(b, f, d, t, answer) ==
    LET first == initialize_default_categories(b, f, d, t) IN
    IF ~first.ok THEN first
    ELSE IF to_lowercase(trim(answer)) # "y" THEN first
    ELSE LET s == save(b, first.file, first.db, StorageDataNew(t)) IN
         IF ~s.ok THEN s
         ELSE initialize_default_categories(b, s.file, s.db, t)

ConfigReset ==
    \E answer \in Answers :
        Mutate("config_reset", answer, config_reset(backend, file, db, now, answer))

NextReset ==
    \/ ConfigReset
    \/ ManagerAddCategory
    \/ AddNewTask
    \/ DeleteTask

SpecReset == InitStored /\ [][NextReset]_vars

AnswerIsYes(answer) == answer \in {"y\n", "Y\n", " y \n"}

\* C28: config reset leaves the store as it was when the answer, trimmed and
\* lower-cased, is not y; when it is y the store afterwards holds no task and
\* exactly the categories Home (id 1) and Work (id 2), whatever it held.
C28_ConfigReset ==
    /\ []((last.op = "config_reset" /\ AnswerIsYes(last.arg)) =>
             /\ PersistedTasks = <<>>
             /\ Len(PersistedCategories) = 2
             /\ \E i, j \in 1..Len(PersistedCategories) :
                    /\ PersistedCategories[i].id = 1
                    /\ PersistedCategories[i].name = "Home"
                    /\ PersistedCategories[j].id = 2
                    /\ PersistedCategories[j].name = "Work")
    /\ [][(last'.op = "config_reset" /\ ~AnswerIsYes(last'.arg)) =>
              (file' = file /\ db' = db)]_vars

(***************************************************************************)
(* config.rs: ConfigManager over its own flat file (storage::json).        *)
(***************************************************************************)
ConfigKeys == {"deleted-task-lifespan", "storage.type", "storage.path",
               "default-category", "default-priority"}
KeyInputs == ConfigKeys \cup {"storage.kind"}
ValueInputs == {"sqlite", "007", "high", "~/data.json", "/nonexistent/data.json"}

VALID_STORAGE_TYPES == {"json", "sqlite"}
VALID_PRIORITIES == {"high", "medium", "low"}

\* shellexpand::tilde with HOME=/home/user
tilde(path) == IF path = "~/data.json" THEN "/home/user/data.json" ELSE path

\* the paths whose parent directory exists
ParentExists(path) == path \in {"/home/user/data.json", "/tmp/data.json"}

validate_storage_path(path) ==
    IF ParentExists(tilde(path)) THEN Ok(tilde(path)) ELSE Err("InvalidConfig")

\* str::parse::<u32>
validate_lifespan(value) ==
    CASE value = "0" -> Ok(0)
      [] value = "7" -> Ok(7)
      [] value = "007" -> Ok(7)
      [] OTHER -> Err("InvalidConfig")

\* u32::to_string
to_string(v) == IF v = 0 THEN "0" ELSE "7"

ConfigValidate(config) ==
    /\ config.storage_type # None => config.storage_type[1] \in VALID_STORAGE_TYPES
    /\ config.default_priority # None => config.default_priority[1] \in VALID_PRIORITIES
    /\ config.storage_path # None => validate_storage_path(config.storage_path[1]).ok

get_config(f) == JsonLoad(f, 0).val.config

config_get(f, key) ==
    LET config == get_config(f) IN
    CASE key = "deleted-task-lifespan" ->
             IF config.deleted_task_lifespan = None THEN None
             ELSE Some(to_string(config.deleted_task_lifespan[1]))
      [] key = "storage.type" -> config.storage_type
      [] key = "storage.path" -> config.storage_path
      [] key = "default-category" -> config.default_category
      [] key = "default-priority" -> config.default_priority
      [] OTHER -> None

\* what set and unset hand back: the result, the file and the manager's field
ConfigOutcome(r, f, old) ==
    [ok |-> r.ok, err |-> r.err, val |-> NoValue, file |-> f, old |-> old]

config_set(f, old, t, key, value) ==
    LET l == JsonLoad(f, t)
        config == l.val.config
        lifespan == validate_lifespan(value)
        path == validate_storage_path(value)
        changed ==
            CASE key = "deleted-task-lifespan" ->
                     IF lifespan.ok
                     THEN Ok([config EXCEPT !.deleted_task_lifespan = Some(lifespan.val)])
                     ELSE lifespan
              [] key = "storage.type" ->
                     IF value \in VALID_STORAGE_TYPES
                     THEN Ok([config EXCEPT !.storage_type = Some(value)])
                     ELSE Err("InvalidConfig")
              [] key = "storage.path" ->
                     IF path.ok THEN Ok([config EXCEPT !.storage_path = Some(path.val)])
                     ELSE path
              [] key = "default-category" ->
                     Ok([config EXCEPT !.default_category = Some(value)])
              [] key = "default-priority" ->
                     IF value \in VALID_PRIORITIES
                     THEN Ok([config EXCEPT !.default_priority = Some(value)])
                     ELSE Err("InvalidConfig")
              [] OTHER -> Err("InvalidKey")
        old_after ==
            IF key = "storage.type" /\ changed.ok
            THEN Some(IF config.storage_type = None THEN "" ELSE config.storage_type[1])
            ELSE old
    IN IF ~l.ok THEN ConfigOutcome(Err("Storage"), f, old)
       ELSE IF ~changed.ok THEN ConfigOutcome(changed, f, old)
       ELSE IF ~ConfigValidate(changed.val)
       THEN ConfigOutcome(Err("InvalidConfig"), f, old_after)
       ELSE LET s == JsonSave(f, DbUninitialized, [l.val EXCEPT !.config = changed.val])
            IN ConfigOutcome(IF s.ok THEN s ELSE Err("Storage"), s.file, old_after)

\* the field of the key in a Config
FieldOf(key) ==
    CASE key = "deleted-task-lifespan" -> "deleted_task_lifespan"
      [] key = "storage.type" -> "storage_type"
      [] key = "storage.path" -> "storage_path"
      [] key = "default-category" -> "default_category"
      [] OTHER -> "default_priority"

\* the key is put back to the value Config::default() gives it
config_unset_to_default(f, old, t, key) ==
    LET config == get_config(f)
        l == JsonLoad(f, t)
    IN IF key \notin ConfigKeys THEN ConfigOutcome(Err("InvalidKey"), f, old)
       ELSE LET s == JsonSave(f, DbUninitialized,
                              [l.val EXCEPT !.config =
                                  [config EXCEPT ![FieldOf(key)] = ConfigDefault[FieldOf(key)]]])
            IN ConfigOutcome(s, s.file, old)

config_unset(f, old, t, key) ==
    LET config == get_config(f)
        l == JsonLoad(f, t)
    IN IF key \notin ConfigKeys THEN ConfigOutcome(Err("InvalidKey"), f, old)
       ELSE LET s == JsonSave(f, DbUninitialized,
                              [l.val EXCEPT !.config =
                                  [config EXCEPT ![FieldOf(key)] = None]])
            IN ConfigOutcome(s, s.file, old)

\* ConfigManager::new: the three defaults are set when the file is not there
config_manager_new(f, t) ==
    IF f.kind # "missing" THEN ConfigOutcome(Ok(NoValue), f, None)
    ELSE LET a == config_set(f, None, t, "deleted-task-lifespan", "0")
             b == config_set(a.file, a.old, t, "storage.type", "json")
         IN config_set(b.file, b.old, t, "default-priority", "medium")

InitConfig ==
    /\ backend = "json"
    /\ \E f \in {FileMissing, FileBlank} :
          LET m == config_manager_new(f, 0) IN
          /\ file = m.file
          /\ old_storage_type = m.old
    /\ db = DbUninitialized
    /\ now = 0
    /\ last = Called("new", NoValue, Ok(NoValue))
    /\ input = NoValue
    /\ constructed = TRUE
    /\ mutex = 0
    /\ pc = [t \in Threads |-> "idle"]
    /\ job = [t \in Threads |-> NoJob]
    /\ tx = NoTx
    /\ current_category = None

\* a call on the ConfigManager: its file, its field and the record of the call
ConfigCall(op, arg, o) ==
    /\ file' = o.file
    /\ old_storage_type' = o.old
    /\ last' = Called(op, arg, o)
    /\ UNCHANGED <<backend, db, now, input, constructed, mutex, pc, job, tx,
                   current_category>>

ConfigSet ==
    \E key \in KeyInputs, value \in ValueInputs :
        ConfigCall("set", <<key, value>>, config_set(file, old_storage_type, now, key, value))

ConfigUnset ==
    \E key \in KeyInputs :
        ConfigCall("unset", <<key>>, config_unset(file, old_storage_type, now, key))

ConfigGet ==
    \E key \in KeyInputs :
        /\ last' = Called("get", <<key>>, Ok(config_get(file, key)))
        /\ UNCHANGED <<file, db>>
        /\ Idle

NextConfig == ConfigSet \/ ConfigUnset \/ ConfigGet

SpecConfig == InitConfig /\ [][NextConfig]_vars

\* every key but the one the call names reads as before
OtherKeysUnchanged(key) ==
    \A other \in ConfigKeys \ {key} : config_get(file', other) = config_get(file, other)

\* set and unset with a key that is not one of the five fail with InvalidKey
\* and leave the file and the manager as they were
UnknownKeyRejected ==
    ((last'.op = "set" \/ last'.op = "unset") /\ last'.arg[1] \notin ConfigKeys) =>
        /\ ~last'.ok
        /\ last'.err = "InvalidKey"
        /\ file' = file
        /\ old_storage_type' = old_storage_type

UnsetClears ==
    (last'.op = "unset" /\ last'.ok) =>
        /\ config_get(file', last'.arg[1]) = None
        /\ OtherKeysUnchanged(last'.arg[1])

\* C29 as stated: after a set(key, value) that succeeds get(key) returns
\* value, tilde-expanded for storage.path, and every other key reads as
\* before; after an unset(key) that succeeds get(key) is None and every other
\* key reads as before; an unknown key is rejected with InvalidKey and
\* nothing changes.
C29_SetThenGet ==
    [][/\ (last'.op = "set" /\ last'.ok) =>
              /\ config_get(file', last'.arg[1]) =
                     Some(IF last'.arg[1] = "storage.path"
                          THEN tilde(last'.arg[2]) ELSE last'.arg[2])
              /\ OtherKeysUnchanged(last'.arg[1])
       /\ UnsetClears
       /\ UnknownKeyRejected]_vars

\* the decimal numeral of the number a lifespan text denotes
Numeral(value) == IF value = "007" THEN "7" ELSE value

\* C29, amended: the same, except that after set("deleted-task-lifespan",
\* value) get returns the decimal numeral of the number value denotes.
C29_SetThenGetStored ==
    [][/\ (last'.op = "set" /\ last'.ok) =>
              /\ config_get(file', last'.arg[1]) =
                     Some(CASE last'.arg[1] = "storage.path" -> tilde(last'.arg[2])
                            [] last'.arg[1] = "deleted-task-lifespan" -> Numeral(last'.arg[2])
                            [] OTHER -> last'.arg[2])
              /\ OtherKeysUnchanged(last'.arg[1])
       /\ UnsetClears
       /\ UnknownKeyRejected]_vars

\* a lifespan written with leading zeros was set and reads back as 7, a path
\* with a tilde reads back expanded, and a key has been unset
C29_Witness ==
    /\ last.op = "unset"
    /\ last.ok
    /\ last.arg = <<"storage.type">>
    /\ config_get(file, "storage.type") = None
    /\ config_get(file, "deleted-task-lifespan") = Some("7")
    /\ config_get(file, "storage.path") = Some("/home/user/data.json")

(***************************************************************************)
(* The calls a provided method makes on load and save, in the order it     *)
(* makes them (storage/mod.rs; CategoryManager::add_category).             *)
(***************************************************************************)
get_category(b, f, d, t, category_id) ==
    LET l == load(b, f, d, t) IN
    IF ~l.ok THEN l
    ELSE LET i == IndexOfId(l.val.categories, category_id) IN
         Ok(IF i = 0 THEN None ELSE Some(l.val.categories[i]))

get_category_id_by_name(b, f, d, t, name) ==
    LET l == load(b, f, d, t) IN
    IF ~l.ok THEN l
    ELSE LET found == SelectSeq(l.val.categories,
                                LAMBDA c : to_lowercase(c.name) = to_lowercase(name))
         IN Ok(IF found = <<>> THEN None ELSE Some(found[1].id))

get_tasks_by_category_name(b, f, d, t, category_name) ==
    LET id == get_category_id_by_name(b, f, d, t, category_name) IN
    IF ~id.ok THEN id
    ELSE IF id.val # None THEN get_tasks_by_category(b, f, d, t, id.val[1])
    ELSE Ok(<<>>)

StorageCalls(op, arg, b, f, d, t) ==
    LET l == load(b, f, d, t) IN
    IF ~l.ok THEN <<"load">>
    ELSE CASE op = "add_task" -> <<"load", "save">>
           [] op = "delete_task" -> <<"load", "save">>
           [] op = "delete_category" ->
                  IF \E i \in 1..Len(l.val.tasks) : l.val.tasks[i].category_id = arg
                  THEN <<"load">> ELSE <<"load", "save">>
           [] op = "soft_delete_task" ->
                  IF IndexOfId(l.val.tasks, arg) # 0 THEN <<"load", "save">>
                  ELSE <<"load">>
           [] op = "get_category" -> <<"load">>
           [] op = "get_tasks_by_category_name" ->
                  IF get_category_id_by_name(b, f, d, t, arg).val # None
                  THEN <<"load", "load">> ELSE <<"load">>
           [] op = "manager_add_category" ->
                  IF HasName(l.val.categories, arg) THEN <<"load">>
                  ELSE <<"load", "load", "save">>

\* a call together with the calls it made on load and save
Traced(op, arg, o) ==
    /\ file' = o.file
    /\ db' = o.db
    /\ last' = [Called(op, arg, o) EXCEPT
                   !.val = StorageCalls(op, arg, backend, file, db, now)]
    /\ Idle

TracedAddTask ==
    \E category_id \in {0, 1} :
        LET task == TaskNew("Test Task", category_id, None, "Medium", now).val IN
        /\ PersistedTasks = <<>>
        /\ Traced("add_task", task, add_task(backend, file, db, now, task))

TracedDeleteTask ==
    \E task_id \in TaskIds :
        Traced("delete_task", task_id, delete_task(backend, file, db, now, task_id))

TracedDeleteCategory ==
    \E category_id \in CategoryIds :
        Traced("delete_category", category_id,
               delete_category(backend, file, db, now, category_id))

TracedSoftDeleteTask ==
    \E task_id \in TaskIds :
        Traced("soft_delete_task", task_id,
               soft_delete_task(backend, file, db, now, task_id))

TracedGetCategory ==
    \E category_id \in CategoryIds :
        Traced("get_category", category_id,
               Unchanged(get_category(backend, file, db, now, category_id), file, db))

TracedGetTasksByCategoryName ==
    \E category_name \in NameInputs :
        Traced("get_tasks_by_category_name", category_name,
               Unchanged(get_tasks_by_category_name(backend, file, db, now, category_name),
                         file, db))

TracedManagerAddCategory ==
    \E name \in NameInputs :
        /\ Len(PersistedCategories) < MaxCats
        /\ Traced("manager_add_category", name,
                  manager_add_category(backend, file, db, now, name, None))

NextCalls ==
    \/ TracedAddTask
    \/ TracedDeleteTask
    \/ TracedDeleteCategory
    \/ TracedSoftDeleteTask
    \/ TracedGetCategory
    \/ TracedGetTasksByCategoryName
    \/ TracedManagerAddCategory

SpecCalls == InitStored /\ [][NextCalls]_vars

Queries == {"get_category", "get_tasks_by_category_name"}

CountOf(calls, call) == Cardinality({i \in 1..Len(calls) : calls[i] = call})

\* the call named an id or a name for which the method returns an error
\* before it saves; the store is then as it was before the call
RejectedCall ==
    /\ ~last.ok
    /\ \/ /\ last.op = "delete_category"
          /\ \E i \in 1..Len(PersistedTasks) : PersistedTasks[i].category_id = last.arg
       \/ /\ last.op = "soft_delete_task"
          /\ last.arg \notin IdsOf(PersistedTasks)
       \/ /\ last.op = "manager_add_category"
          /\ StoredIgnoringCase(last.arg)

\* C30: a provided method makes exactly one load, first, and at most one
\* save after it: one save when it is a mutation that succeeds, none when it
\* is a query or a mutation that is rejected.
C30_OneLoadOneSave ==
    last.op # "new" =>
        /\ last.val # <<>>
        /\ last.val[1] = "load"
        /\ CountOf(last.val, "load") = 1
        /\ CountOf(last.val, "save") <= 1
        /\ (last.op \notin Queries /\ last.ok) => CountOf(last.val, "save") = 1
        /\ (last.op \in Queries \/ RejectedCall) => CountOf(last.val, "save") = 0

\* C31: in every state the storage operations reach, the persisted task ids
\* are pairwise distinct and the persisted category ids are pairwise
\* distinct: adding an entity whose id is stored never leaves two stored
\* entities with one id.
C31_IdsDistinct ==
    /\ \A i, j \in 1..Len(PersistedTasks) :
           PersistedTasks[i].id = PersistedTasks[j].id => i = j
    /\ \A i, j \in 1..Len(PersistedCategories) :
           PersistedCategories[i].id = PersistedCategories[j].id => i = j

\* the tasks a load returns that name a category that is not stored
Dangling(tasks, categories) ==
    {i \in 1..Len(tasks) : tasks[i].category_id # 0
                           /\ tasks[i].category_id \notin IdsOf(categories)}

\* C32: after CategoryManager::delete_category(id, new) succeeds, id is not
\* stored, every task that was in id is in new (0 when new is not given) and
\* every other task is as it was, and no task names a category that is not
\* stored, whatever accepted new was passed, new = id included; when id or
\* new is not stored the call fails and the store is unchanged.
C32_ManagerDeleteCategory ==
    [][last'.op = "manager_delete_category" =>
        LET id == last'.arg[1]
            new == last'.arg[2]
            to == IF new = None THEN 0 ELSE new[1]
        IN /\ last'.ok =>
                 /\ id \notin IdsOf(PersistedCategories')
                 /\ Len(PersistedTasks') = Len(PersistedTasks)
                 /\ \A i \in 1..Len(PersistedTasks) :
                        PersistedTasks'[i].category_id =
                            IF PersistedTasks[i].category_id = id THEN to
                            ELSE PersistedTasks[i].category_id
                 /\ (Dangling(PersistedTasks, PersistedCategories) = {}
                        => Dangling(PersistedTasks', PersistedCategories') = {})
           /\ (id \notin IdsOf(PersistedCategories)
               \/ (new # None /\ to \notin IdsOf(PersistedCategories))) =>
                 /\ ~last'.ok
                 /\ file' = file
                 /\ db' = db]_vars

\* C36: in every state reached through CategoryManager operations, two
\* managers on one storage included, the persisted current-category pointer
\* is empty or the id of a stored category.
C36_PointerStored ==
    LET pointer == manager_new(backend, file, db, now) IN
    pointer = None \/ pointer[1] \in IdsOf(PersistedCategories)

\* id is stored, the name is not blank, and no other stored category has the
\* name ignoring case
RenameAllowed(categories, id, name) ==
    /\ id \in IdsOf(categories)
    /\ name \notin {"", " "}
    /\ \A j \in 1..Len(categories) :
           categories[j].id # id =>
               to_lowercase(categories[j].name) # to_lowercase(name)

\* C37: CategoryManager::update_category(id, new_name) succeeds exactly when
\* id is stored, new_name is not blank and no other stored category has that
\* name ignoring case (so a category can be renamed to another
\* capitalisation of its own name); when it fails the stored categories are
\* unchanged.
C37_ManagerUpdateCategory ==
    /\ []((last.op = "manager_update_category" /\ ~last.ok) =>
              ~RenameAllowed(PersistedCategories, last.arg[1], last.arg[2]))
    /\ [][last'.op = "manager_update_category" =>
              /\ last'.ok => RenameAllowed(PersistedCategories, last'.arg[1], last'.arg[2])
              /\ ~last'.ok => PersistedCategories' = PersistedCategories]_vars

(***************************************************************************)
(* Deleting a category and purging the deleted tasks, as time passes.      *)
(***************************************************************************)
NextPurge ==
    \/ Tick
    \/ ManagerDeleteCategory
    \/ PurgeDeletedTasks

SpecPurge == InitStored /\ [][NextPurge]_vars

\* the ids of the tasks left by purge_deleted_tasks(days_threshold) run on
\* the store f, d at time t
IdsLeftByPurge(f, d, t, days_threshold) ==
    LET o == purge_deleted_tasks(backend, f, d, t, days_threshold)
    IN IdsOf(load(backend, o.file, o.db, t).val.tasks)

\* C38: a task moved to category 0 by CategoryManager::delete_category(id,
\* None) is not removed by purge_deleted_tasks(d) earlier than d days after
\* that deletion: a purge with d of one day or more, run on the store the
\* deletion leaves and at the time of the deletion, keeps every task the
\* deletion moved.
C38_NotPurgedEarly ==
    [][(/\ last'.op = "manager_delete_category"
        /\ last'.ok
        /\ last'.arg[2] = None) =>
           \A days_threshold \in DayThresholds \ {0} :
               \A i \in 1..Len(PersistedTasks) :
                   PersistedTasks[i].category_id = last'.arg[1] =>
                       PersistedTasks[i].id
                           \in IdsLeftByPurge(file', db', now', days_threshold)]_vars

\* C33: move_task_to_category(t, c) on a stored task changes only that
\* task's category_id, to c, and its updated_at: the number of tasks, every
\* other field of the task, every other task and all categories are as
\* they were.
C33_MoveChangesOneTask ==
    [][(/\ CallOf("move_task_to_category")
        /\ last'.arg[1] \in IdsOf(PersistedTasks)) =>
           LET i == IndexOfId(PersistedTasks, last'.arg[1]) IN
           /\ Len(PersistedTasks') = Len(PersistedTasks)
           /\ \A j \in 1..Len(PersistedTasks) :
                  j # i => PersistedTasks'[j] = PersistedTasks[j]
           /\ [PersistedTasks'[i] EXCEPT
                   !.category_id = PersistedTasks[i].category_id,
                   !.updated_at = PersistedTasks[i].updated_at] = PersistedTasks[i]
           /\ PersistedCategories' = PersistedCategories
           /\ last'.ok =>
                  /\ PersistedTasks'[i].category_id = last'.arg[2]
                  /\ PersistedTasks'[i].updated_at.instant = now]_vars

\* a task stamped on an earlier day has been moved to another category, next
\* to a task that was not moved
C33_Witness ==
    /\ last.op = "move_task_to_category"
    /\ last.ok
    /\ now > 0
    /\ Len(PersistedTasks) > 1
    /\ \E i \in 1..Len(PersistedTasks) :
           /\ PersistedTasks[i].id = last.arg[1]
           /\ PersistedTasks[i].category_id = last.arg[2]
           /\ PersistedTasks[i].updated_at.instant = now
    /\ \E j \in 1..Len(PersistedTasks) :
           /\ PersistedTasks[j].id # last.arg[1]
           /\ PersistedTasks[j].updated_at.instant < now

(***************************************************************************)
(* The filter queries, over the tasks of the storage tests.                *)
(***************************************************************************)
\* create_test_data of storage/mod.rs: priorities, completion and categories
\* of its four tasks; the second snapshot also stores the category of the
\* deleted tasks, which the relational backend needs to accept task 4
FilterSnapshots ==
    LET tasks == <<[MkTask(1, 1) EXCEPT !.priority = "High"],
                   [MkTask(2, 1) EXCEPT !.completed = TRUE],
                   [MkTask(3, 2) EXCEPT !.priority = "Low"],
                   MkTask(4, 0)>>
    IN {MkData(tasks, <<MkCategory(1, "Work"), MkCategory(2, "Home")>>),
        MkData(tasks, <<MkCategory(0, "Deleted"), MkCategory(1, "Work"),
                        MkCategory(2, "Home")>>)}

InitFilter ==
    /\ backend \in Backends
    /\ \E f \in IF backend = "sqlite" THEN {FileMissing} ELSE {FileMissing, FileBlank},
          data \in FilterSnapshots :
          LET d == IF backend = "sqlite" THEN DbFresh ELSE DbUninitialized
              o == save(backend, f, d, data)
          IN \/ file = o.file /\ db = o.db
             \/ file = f /\ db = d
    /\ now = 0
    /\ last = Called("new", NoValue, Ok(NoValue))
    /\ input = NoValue
    /\ constructed = TRUE
    /\ mutex = 0
    /\ pc = [t \in Threads |-> "idle"]
    /\ job = [t \in Threads |-> NoJob]
    /\ tx = NoTx
    /\ current_category = None
    /\ old_storage_type = None

\* a query returns r and writes nothing
Filter(op, arg, r) ==
    /\ last' = Called(op, arg, r)
    /\ UNCHANGED <<file, db>>
    /\ Idle

GetTasksByCategory ==
    \E category_id \in CategoryIds :
        Filter("get_tasks_by_category", category_id,
               get_tasks_by_category(backend, file, db, now, category_id))

GetTasksByPriority ==
    \E priority \in Priority :
        Filter("get_tasks_by_priority", priority,
               get_tasks_by_priority(backend, file, db, now, priority))

GetCompletedTasks ==
    Filter("get_completed_tasks", NoValue, get_completed_tasks(backend, file, db, now))

GetIncompleteTasks ==
    Filter("get_incomplete_tasks", NoValue, get_incomplete_tasks(backend, file, db, now))

GetTasksByPriorityAndCategory ==
    \E priority \in Priority, category_id \in CategoryIds :
        Filter("get_tasks_by_priority_and_category", <<priority, category_id>>,
               get_tasks_by_priority_and_category(backend, file, db, now,
                                                  priority, category_id))

GetTasksByCompletionAndCategory ==
    \E completed \in BOOLEAN, category_id \in CategoryIds :
        Filter("get_tasks_by_completion_and_category", <<completed, category_id>>,
               get_tasks_by_completion_and_category(backend, file, db, now,
                                                    completed, category_id))

GetTasksByCompletionAndPriority ==
    \E completed \in BOOLEAN, priority \in Priority :
        Filter("get_tasks_by_completion_and_priority", <<completed, priority>>,
               get_tasks_by_completion_and_priority(backend, file, db, now,
                                                    completed, priority))

GetTasksByCompletionPriorityAndCategory ==
    \E completed \in BOOLEAN, priority \in Priority, category_id \in CategoryIds :
        Filter("get_tasks_by_completion_priority_and_category",
               <<completed, priority, category_id>>,
               get_tasks_by_completion_priority_and_category(backend, file, db, now,
                                                             completed, priority,
                                                             category_id))

NextFilter ==
    \/ GetTasksByCategory
    \/ GetTasksByPriority
    \/ GetCompletedTasks
    \/ GetIncompleteTasks
    \/ GetTasksByPriorityAndCategory
    \/ GetTasksByCompletionAndCategory
    \/ GetTasksByCompletionAndPriority
    \/ GetTasksByCompletionPriorityAndCategory
    \/ MoveTaskToCategory
    \/ DeleteTask

SpecFilter == InitFilter /\ [][NextFilter]_vars

FilterQueries ==
    {"get_tasks_by_category", "get_tasks_by_priority", "get_completed_tasks",
     "get_incomplete_tasks", "get_tasks_by_priority_and_category",
     "get_tasks_by_completion_and_category", "get_tasks_by_completion_and_priority",
     "get_tasks_by_completion_priority_and_category"}

\* the conditions of the filter query op called with arg, on task x
Satisfies(x, op, arg) ==
    CASE op = "get_tasks_by_category" -> x.category_id = arg
      [] op = "get_tasks_by_priority" -> x.priority = arg
      [] op = "get_completed_tasks" -> x.completed
      [] op = "get_incomplete_tasks" -> ~x.completed
      [] op = "get_tasks_by_priority_and_category" ->
             x.priority = arg[1] /\ x.category_id = arg[2]
      [] op = "get_tasks_by_completion_and_category" ->
             x.completed = arg[1] /\ x.category_id = arg[2]
      [] op = "get_tasks_by_completion_and_priority" ->
             x.completed = arg[1] /\ x.priority = arg[2]
      [] op = "get_tasks_by_completion_priority_and_category" ->
             x.completed = arg[1] /\ x.priority = arg[2] /\ x.category_id = arg[3]

\* the stored tasks as a load returns them; none when nothing is stored
StoredTasks ==
    LET l == load(backend, file, db, now) IN IF l.ok THEN l.val.tasks ELSE <<>>

\* the tasks of s whose id is among ids, in the order of s
Among(s, ids) == SelectSeq(s, LAMBDA x : x.id \in ids)

\* C34: each filter query (by category, by priority, completed, incomplete
\* and the composites) returns exactly the stored tasks that satisfy all of
\* its conditions, in stored order; the three-condition composite is the
\* intersection of the three single-condition filters; no filter query
\* changes what is persisted.
C34_Filters ==
    /\ [](last.op \in FilterQueries =>
            /\ last.ok
            /\ last.val = SelectSeq(StoredTasks,
                                    LAMBDA x : Satisfies(x, last.op, last.arg)))
    /\ [](last.op = "get_tasks_by_completion_priority_and_category" =>
            LET by_completion == IF last.arg[1]
                                 THEN get_completed_tasks(backend, file, db, now)
                                 ELSE get_incomplete_tasks(backend, file, db, now)
                by_priority == get_tasks_by_priority(backend, file, db, now, last.arg[2])
                by_category == get_tasks_by_category(backend, file, db, now, last.arg[3])
            IN /\ by_completion.ok /\ by_priority.ok /\ by_category.ok
               /\ last.val = Among(StoredTasks,
                                   IdsOf(by_completion.val) \cap IdsOf(by_priority.val)
                                       \cap IdsOf(by_category.val)))
    /\ [][last'.op \in FilterQueries => file' = file /\ db' = db]_vars

(***************************************************************************)
(* add_task called from several threads on one backend instance.  The call *)
(* is load, push, save: the relational backend holds the connection's lock *)
(* for the whole of load and for the whole of save and drops it in         *)
(* between; the flat-file backends read the file at once and write it at   *)
(* once.  Each of the two is one step of the calling thread.               *)
(***************************************************************************)
InitConcurrent ==
    /\ backend \in Backends
    /\ \E f \in IF backend = "sqlite" THEN {FileMissing} ELSE {FileMissing, FileBlank},
          data \in {MkData(<<>>, <<>>), MkData(<<>>, <<MkCategory(1, "Work")>>)} :
          LET d == IF backend = "sqlite" THEN DbFresh ELSE DbUninitialized
              o == save(backend, f, d, data)
          IN \/ file = o.file /\ db = o.db
             \/ file = f /\ db = d
    /\ now = 0
    /\ last = Called("new", NoValue, Ok(NoValue))
    /\ input = NoValue
    /\ constructed = TRUE
    /\ mutex = 0
    /\ pc = [t \in Threads |-> "idle"]
    /\ job = [t \in Threads |-> NoJob]
    /\ tx = NoTx
    /\ current_category = None
    /\ old_storage_type = None

\* thread t calls add_task with a task of its own
AddTaskCall(t) ==
    \E category_id \in {0, 1} :
        /\ pc[t] = "idle"
        /\ job[t].op = "none"
        /\ Goto(t, "add_task_load")
        /\ job' = [job EXCEPT ![t] = [NoJob EXCEPT !.op = "add_task",
                                                   !.data = MkTask(t, category_id)]]
        /\ UNCHANGED <<db, last, constructed, mutex, tx>>
        /\ Fixed

\* let mut data = self.load()?; data.tasks.push(task);
AddTaskLoad(t) ==
    LET l == load(backend, file, db, now) IN
    /\ pc[t] = "add_task_load"
    /\ IF l.ok
       THEN /\ job' = [job EXCEPT ![t].data = [l.val EXCEPT
                                                  !.tasks = Append(@, job[t].data)]]
            /\ Goto(t, "add_task_save")
            /\ last' = last
       ELSE /\ job' = [job EXCEPT ![t].failed = l.err]
            /\ Goto(t, "idle")
            /\ last' = Called("add_task", t, l)
    /\ UNCHANGED <<db, constructed, mutex, tx>>
    /\ Fixed

\* self.save(&data)
AddTaskSave(t) ==
    LET o == save(backend, file, db, job[t].data) IN
    /\ pc[t] = "add_task_save"
    /\ file' = o.file
    /\ db' = o.db
    /\ job' = [job EXCEPT ![t].failed = o.err, ![t].at = 1]
    /\ Goto(t, "idle")
    /\ last' = Called("add_task", t, o)
    /\ UNCHANGED <<backend, now, input, constructed, mutex, tx, current_category,
                   old_storage_type>>

NextConcurrent ==
    \E t \in Threads :
        \/ AddTaskCall(t)
        \/ AddTaskLoad(t)
        \/ AddTaskSave(t)

SpecConcurrent == InitConcurrent /\ [][NextConcurrent]_vars

\* thread t's add_task has returned Ok
AddTaskReturnedOk(t) ==
    /\ pc[t] = "idle"
    /\ job[t].op = "add_task"
    /\ job[t].at = 1
    /\ job[t].failed = "none"

\* C35: when the threads call add_task concurrently with different tasks on
\* one backend instance and every call returns Ok, the persisted snapshot
\* holds every one of the tasks.
C35_NoLostTask ==
    (\A t \in Threads : AddTaskReturnedOk(t))
        => \A t \in Threads : t \in IdsOf(PersistedTasks)

====
